---- MODULE Spec2Model ----
(***************************************************************************)
(* A model of the request-admission pipeline of octroi: the token-bucket   *)
(* limiter, the per-tool rate limiter, the proxy handler and the metering  *)
(* collector.                                                              *)
(*                                                                         *)
(* Time is counted in clock ticks.  A bucket's float64 token count is kept *)
(* exactly as an integer number of 1/WindowTicks-th tokens, so that the    *)
(* refill arithmetic elapsed * rate / window needs no division.  The       *)
(* rounding of that arithmetic in float64 is modelled apart, bit for bit,  *)
(* in the section on the refill in float64.                                *)
(***************************************************************************)
EXTENDS Integers, Sequences, FiniteSets, TLC

\* ------------------------------------------------------------------ bounds
WindowTicks == 2        \* l.window, in clock ticks
DefaultRate == 2        \* l.defaultRate
MaxRate == 2            \* largest custom rate a caller passes
MaxTime == 3            \* the clock stops advancing here
MaxCalls == 4           \* Allow calls counted per key

Keys == {"k1"}
CustomRates == 0..MaxRate

VARIABLES
    buckets,    \* Limiter.buckets: key -> [tokens, lastRefill, rate]
    now,        \* the Limiter's clock (l.now())
    hist,       \* per key, since its bucket was created: Allow calls, Allow
                \* calls that returned true, whether the clock stood still,
                \* whether every call passed the same effective rate
    lastCall,   \* the last limiter call and what it returned
    trlStore,   \* tools.rate_limit and the tool_rate_limits rows of the tool
    treq,       \* the CheckToolRateLimit calls, one per request
    buffer,     \* Collector.buffer
    doneClosed, \* Collector.done has been closed
    ctxCancelled, \* the context passed to Collector.Start is cancelled
    worker,     \* the goroutine running Collector.Start
    rec,        \* the goroutines calling Collector.Record
    handed,     \* the batches handed to BatchInsert, in order, with the result
                \* and the goroutine that flushed
    mainPc,     \* where runServe is
    accepting,  \* the HTTP server accepts new connections
    nextTx,     \* the next transaction to be recorded
    beforeStop, \* the transactions appended before Stop closed done
    preq,       \* the proxy requests: where each is and what it has done
    pxRecorded, \* the transactions passed to the collector's Record
    pxToolLimits, \* Handler.toolRateLimits is set
    transactions, \* the rows of the transactions table
    bclock,     \* time.Now() of the budget checks, in ticks
    bcall,      \* the budget check that has just returned: what it read and
                \* what it returned
    fbucket,    \* one bucket with its float64 token count kept bit for bit
    frun,       \* the clock of that bucket's limiter, and what Allow has
                \* returned since the clock last moved
    tresp,      \* what ServeHTTP made of the CheckToolRateLimit call that
                \* returned last: what the call returned, how many scopes it
                \* had checked, the headers set and the status written
    args,       \* the arguments of the function call under study
    ret,        \* what that call returned, once it has
    sessions,   \* the rows of the sessions table
    sesClock,   \* time.Now() and the database's now(), in days
    sesHist,    \* per session token: whether it was issued and when, and
                \* whether a logout request made with it was answered
    tools,      \* the rows of the tools table
    calls,      \* the Service.Update calls in flight, and whether calls
                \* have overlapped
    mwReq,      \* the requests in ratelimit.Middleware: where each is, the
                \* X-RateLimit headers set on its response and the status
                \* written
    lrlEntries, \* loginRateLimiter.entries: key -> the *loginEntry stored
    lrlHeap,    \* the loginEntry objects allocated: [count, windowStart]
    lrlClock,   \* time.Now() of the login limiter, in ticks
    lrlReq,     \* the login requests: where each is in allow
    lrlCleaner, \* the goroutine of startCleanup: where it is in cleanup
    lrlHist,    \* the login attempts answered, in order: client, time,
                \* status and Retry-After
    tmUsers,    \* the rows of the users table: whether the user exists, and
                \* its teams column
    tmCalls     \* the team and user requests in flight: what each has read,
                \* and whether another request has written since

limVars == <<buckets, now>>
limHist == <<hist, lastCall>>
trlVars == <<trlStore, treq>>
colVars == <<buffer, doneClosed, ctxCancelled, worker, rec, handed, mainPc,
             accepting, nextTx, beforeStop>>
pxVars == <<preq, pxRecorded, pxToolLimits>>
budVars == <<transactions, bclock, bcall>>
fltVars == <<fbucket, frun>>
hdrVars == <<tresp>>
fnVars == <<args, ret>>
sesVars == <<sessions, sesClock, sesHist>>
regVars == <<tools, calls>>
mwVars == <<mwReq>>
lrlVars == <<lrlEntries, lrlHeap, lrlClock, lrlReq, lrlCleaner, lrlHist>>
tmVars == <<tmUsers, tmCalls>>
extVars == <<mwVars, lrlVars, tmVars>>
svcVars == <<fnVars, sesVars, regVars, extVars>>
vars == <<buckets, now, hist, lastCall, trlStore, treq, buffer, doneClosed,
          ctxCancelled, worker, rec, handed, mainPc, accepting, nextTx, beforeStop,
          preq, pxRecorded, pxToolLimits, transactions, bclock, bcall, fbucket, frun, tresp,
          args, ret, sessions, sesClock, sesHist, tools, calls,
          mwReq, lrlEntries, lrlHeap, lrlClock, lrlReq, lrlCleaner, lrlHist,
          tmUsers, tmCalls>>

Min(a, b) == IF a < b THEN a ELSE b

\* --------------------------------------------------- token-bucket limiter
\* One whole token, in the units of bucket.tokens.
OneToken == WindowTicks

effectiveRate(customRate) == IF customRate > 0 THEN customRate ELSE DefaultRate

getBucketDefaultFull(bs, key, rate, t) ==
    LET b == IF key \in DOMAIN bs
             THEN bs[key]
             ELSE [tokens |-> DefaultRate * OneToken, lastRefill |-> t, rate |-> rate]
    IN  [b EXCEPT !.rate = rate]

\* The bucket of key, created full at time t when there is none; the rate is
\* overwritten on every call.
getBucket(bs, key, rate, t) ==
    LET b == IF key \in DOMAIN bs
             THEN bs[key]
             ELSE [tokens |-> rate * OneToken, lastRefill |-> t, rate |-> rate]
    IN  [b EXCEPT !.rate = rate]

refillFromEmpty(b, t) ==
    LET elapsed == t - b.lastRefill
        added == elapsed * b.rate
    IN  IF elapsed <= 0
        THEN b
        ELSE [b EXCEPT !.tokens = IF added > b.rate * OneToken
                                  THEN b.rate * OneToken
                                  ELSE added,
                       !.lastRefill = t]

refillMissingClamp(b, t) ==
    LET elapsed == t - b.lastRefill
    IN  IF elapsed <= 0
        THEN b
        ELSE [b EXCEPT !.tokens = b.tokens + elapsed * b.rate, !.lastRefill = t]

\* elapsed * (rate / window) tokens are added, clamped to rate.
refill(b, t) ==
    LET elapsed == t - b.lastRefill
        added == b.tokens + elapsed * b.rate
    IN  IF elapsed <= 0
        THEN b
        ELSE [b EXCEPT !.tokens = IF added > b.rate * OneToken
                                  THEN b.rate * OneToken
                                  ELSE added,
                       !.lastRefill = t]

allowOffByOne(b) == b.tokens >= 0

\* The test of Allow on a refilled bucket: tokens < 1 denies.
allowTest(b) == ~(b.tokens < OneToken)

\* Allow under the mutex: the bucket after the call and the value returned.
\* getBucket and refill read the clock at the same tick: a bucket that
\* getBucket creates is full, and refill leaves a full bucket full.
Allow(bs, key, customRate, t) ==
    LET rate == effectiveRate(customRate)
        b == refill(getBucket(bs, key, rate, t), t)
    IN  IF allowTest(b)
        THEN [bucket |-> [b EXCEPT !.tokens = b.tokens - OneToken], ok |-> TRUE]
        ELSE [bucket |-> b, ok |-> FALSE]

\* Status under the mutex: the bucket after the refill and (limit,
\* remaining, resetAt); resetAt is in ticks, deficit / refillRate rounded
\* down as the conversion to time.Duration does.
Status(bs, key, customRate, t) ==
    LET rate == effectiveRate(customRate)
        b == refill(getBucket(bs, key, rate, t), t)
        deficit == rate * OneToken - b.tokens
    IN  [bucket |-> b,
         limit |-> rate,
         remaining |-> IF b.tokens \div OneToken < 0 THEN 0 ELSE b.tokens \div OneToken,
         resetAt |-> IF deficit <= 0 THEN t ELSE t + (deficit \div rate)]

Put(bs, key, b) == (key :> b) @@ bs

\* The history of key after a call that passed customRate.
HistAfter(key, customRate, isAllow, ok) ==
    LET rate == effectiveRate(customRate)
        old == IF key \in DOMAIN hist
               THEN hist[key]
               ELSE [calls |-> 0, grants |-> 0, steady |-> TRUE, fixed |-> TRUE]
        same == key \notin DOMAIN buckets \/ buckets[key].rate = rate
    IN  [calls |-> old.calls + (IF isAllow THEN 1 ELSE 0),
         grants |-> old.grants + (IF isAllow /\ ok THEN 1 ELSE 0),
         steady |-> old.steady,
         fixed |-> old.fixed /\ same]

CallsOf(key) == IF key \in DOMAIN hist THEN hist[key].calls ELSE 0

\* The parts of the state a specification does not use stay as they are here.
LimUnused == buckets = << >> /\ now = 0
HistUnused == hist = << >> /\ lastCall = [op |-> "none"]
TrlUnused == trlStore = << >> /\ treq = << >>
ColUnused ==
    /\ buffer = << >> /\ doneClosed = FALSE /\ ctxCancelled = FALSE
    /\ worker = << >> /\ rec = << >> /\ handed = << >>
    /\ mainPc = "none" /\ accepting = FALSE /\ nextTx = 0 /\ beforeStop = {}
PxUnused == preq = << >> /\ pxRecorded = << >> /\ pxToolLimits = FALSE
BudUnused == transactions = << >> /\ bclock = 0 /\ bcall = [op |-> "none"]
FltUnused == fbucket = << >> /\ frun = << >>
HdrUnused == tresp = [served |-> FALSE]
FnUnused == args = << >> /\ ret = << >>
SesUnused == sessions = {} /\ sesClock = 0 /\ sesHist = << >>
RegUnused == tools = << >> /\ calls = << >>
MwUnused == mwReq = << >>
LrlUnused ==
    /\ lrlEntries = << >> /\ lrlHeap = << >> /\ lrlClock = 0 /\ lrlReq = << >>
    /\ lrlCleaner = << >> /\ lrlHist = << >>
TmUnused == tmUsers = << >> /\ tmCalls = << >>
ExtUnused == MwUnused /\ LrlUnused /\ TmUnused
SvcUnused == FnUnused /\ SesUnused /\ RegUnused /\ ExtUnused
\* The admission pipeline and the metering are left out of a specification.
CoreUnused ==
    /\ LimUnused /\ HistUnused /\ TrlUnused /\ ColUnused /\ PxUnused /\ BudUnused
    /\ FltUnused /\ HdrUnused /\ ExtUnused
CoreFrame ==
    UNCHANGED <<limVars, limHist, trlVars, colVars, pxVars, budVars, fltVars, hdrVars,
                extVars>>

LimInit ==
    /\ buckets = << >>
    /\ now = 0
    /\ hist = << >>
    /\ lastCall = [op |-> "none"]
    /\ TrlUnused
    /\ ColUnused
    /\ PxUnused /\ BudUnused /\ FltUnused /\ HdrUnused /\ SvcUnused

\* One caller's l.Allow(key, customRate).
DoAllow(key, customRate) ==
    /\ CallsOf(key) < MaxCalls
    /\ LET r == Allow(buckets, key, customRate, now)
       IN  /\ buckets' = Put(buckets, key, r.bucket)
           /\ hist' = Put(hist, key, HistAfter(key, customRate, TRUE, r.ok))
           /\ lastCall' = [op |-> "Allow", key |-> key, ok |-> r.ok]
    /\ UNCHANGED <<now, trlVars, colVars, pxVars, budVars, fltVars, hdrVars, svcVars>>

\* One caller's l.Status(key, customRate).
DoStatus(key, customRate) ==
    /\ LET r == Status(buckets, key, customRate, now)
       IN  /\ buckets' = Put(buckets, key, r.bucket)
           /\ hist' = Put(hist, key, HistAfter(key, customRate, FALSE, FALSE))
           /\ lastCall' = [op |-> "Status", key |-> key, limit |-> r.limit,
                           remaining |-> r.remaining, resetAt |-> r.resetAt]
    /\ UNCHANGED <<now, trlVars, colVars, pxVars, budVars, fltVars, hdrVars, svcVars>>

\* The clock advances by d ticks.
Advance(d, horizon) ==
    /\ now + d <= horizon
    /\ now' = now + d
    /\ hist' = [k \in DOMAIN hist |-> [hist[k] EXCEPT !.steady = FALSE]]
    /\ UNCHANGED <<buckets, lastCall, trlVars, colVars, pxVars, budVars, fltVars, hdrVars, svcVars>>

LimAllowStep == \E key \in Keys, c \in CustomRates : DoAllow(key, c)
LimStatusStep == \E key \in Keys, c \in CustomRates : DoStatus(key, c)
LimAdvanceStep == \E d \in 1..MaxTime : Advance(d, MaxTime)

LimNext == LimAllowStep \/ LimStatusStep \/ LimAdvanceStep

SpecLimiter == LimInit /\ [][LimNext]_vars

\* ------------------------------------------------------ tool rate limiter
MaxToolRate == 1        \* largest rate stored for a tool scope
TrlMaxTime == 1         \* the clock stops advancing here

ToolID == "T1"
Agents == {"a1", "a2"}
\* agent.Team: a1 belongs to a team, a2 has the empty team.
TeamOf(agentID) == IF agentID = "a1" THEN "alpha" ELSE ""
\* The requests in flight at a time; a finished one makes room for the next.
Reqs == {"r1", "r2"}
Scopes == {"global", "team", "agent"}

\* tool_rate_limits only holds rows with a non-empty scope_id and a positive
\* rate; tools.rate_limit is an unchecked integer.
OverrideIDs == {<<"team", "alpha">>, <<"agent", "a1">>}
GlobalRates == (-1)..MaxToolRate

\* COALESCE((SELECT rate_limit ... WHERE scope = .. AND scope_id = ..), 0)
Override(store, scope, scopeID) ==
    IF <<scope, scopeID>> \in DOMAIN store.rows THEN store.rows[<<scope, scopeID>>] ELSE 0

Resolve(store, team, agentID) ==
    [global |-> store.global,
     team |-> Override(store, "team", team),
     agent |-> Override(store, "agent", agentID)]

GlobalKey(toolID) == "tool:" \o toolID
TeamKey(toolID, team) == "tool:" \o toolID \o ":team:" \o team
AgentKey(toolID, agentID) == "tool:" \o toolID \o ":agent:" \o agentID

\* The scopeCheck list of CheckToolRateLimit, in the order it is built.
scopeChecks(toolID, team, agentID, rates) ==
    (IF rates.global > 0
     THEN <<[scope |-> "global", key |-> GlobalKey(toolID), rate |-> rates.global]>>
     ELSE << >>)
    \o (IF rates.team > 0 /\ team # ""
        THEN <<[scope |-> "team", key |-> TeamKey(toolID, team), rate |-> rates.team]>>
        ELSE << >>)
    \o (IF rates.agent > 0
        THEN <<[scope |-> "agent", key |-> AgentKey(toolID, agentID), rate |-> rates.agent]>>
        ELSE << >>)

trlLastWins(allowed, ok) == ok

\* if !trl.limiter.Allow(c.key, c.rate) { allowed = false }
trlAccumulate(allowed, ok) == allowed /\ ok

trlLatest(cur, st) ==
    [limit |-> st.limit, remaining |-> st.remaining, resetAt |-> st.resetAt]

\* if limit == 0 || l < limit { limit = l; remaining = r; resetAt = rst }
trlTightest(cur, st) ==
    IF cur.limit = 0 \/ st.limit < cur.limit
    THEN [limit |-> st.limit, remaining |-> st.remaining, resetAt |-> st.resetAt]
    ELSE cur

NoHeaders == [limit |-> 0, remaining |-> 0, resetAt |-> 0]
NoRates == [global |-> 0, team |-> 0, agent |-> 0]

TrlIdle ==
    [pc |-> "idle", agent |-> "", team |-> "", rates |-> NoRates, checks |-> << >>,
     i |-> 0, allowed |-> FALSE, err |-> FALSE, out |-> NoHeaders,
     had |-> [s \in Scopes |-> FALSE]]

\* Whether the bucket of a scope holds a whole token at the time it is checked.
HasToken(bs, key, rate, t) ==
    refill(getBucket(bs, key, effectiveRate(rate), t), t).tokens >= OneToken

TrlInit ==
    /\ buckets = << >>
    /\ now = 0
    /\ HistUnused
    /\ ColUnused
    /\ PxUnused /\ BudUnused /\ FltUnused /\ HdrUnused /\ SvcUnused
    /\ \E g \in GlobalRates, rows \in [OverrideIDs -> 0..MaxToolRate] :
          trlStore = [global |-> g,
                      rows |-> [id \in {x \in OverrideIDs : rows[x] > 0} |-> rows[id]]]
    /\ treq = [r \in Reqs |-> TrlIdle]

\* CheckToolRateLimit up to the loop: Resolve fails, or no scope is
\* configured, or the loop over the checks starts.
TrlBegin(r, agentID, resolveFails) ==
    /\ treq[r].pc = "idle"
    /\ LET team == TeamOf(agentID)
           rates == Resolve(trlStore, team, agentID)
           checks == scopeChecks(ToolID, team, agentID, rates)
           base == [TrlIdle EXCEPT !.agent = agentID, !.team = team]
       IN  treq' = [treq EXCEPT ![r] =
              IF resolveFails
              THEN [base EXCEPT !.pc = "done", !.err = TRUE]
              ELSE IF (rates.global = 0 /\ rates.team = 0 /\ rates.agent = 0)
                      \/ Len(checks) = 0
              THEN [base EXCEPT !.pc = "done", !.allowed = TRUE, !.rates = rates]
              ELSE [base EXCEPT !.pc = "allow", !.allowed = TRUE, !.rates = rates,
                                !.checks = checks, !.i = 1]]
    /\ UNCHANGED <<limVars, limHist, trlStore, colVars, pxVars, budVars, fltVars, hdrVars, svcVars>>

TrlAllowShortCircuit(r) ==
    /\ treq[r].pc = "allow"
    /\ LET c == treq[r].checks[treq[r].i]
           res == Allow(buckets, c.key, c.rate, now)
       IN  /\ buckets' = IF treq[r].allowed THEN Put(buckets, c.key, res.bucket)
                         ELSE buckets
           /\ treq' = [treq EXCEPT ![r].pc = "status",
                                   ![r].allowed = trlAccumulate(@, res.ok),
                                   ![r].had[c.scope] = HasToken(buckets, c.key, c.rate, now)]
    /\ UNCHANGED <<now, limHist, trlStore, colVars, pxVars, budVars, fltVars, hdrVars, svcVars>>

\* trl.limiter.Allow(c.key, c.rate) of the current check.
TrlAllow(r) ==
    /\ treq[r].pc = "allow"
    /\ LET c == treq[r].checks[treq[r].i]
           res == Allow(buckets, c.key, c.rate, now)
       IN  /\ buckets' = Put(buckets, c.key, res.bucket)
           /\ treq' = [treq EXCEPT ![r].pc = "status",
                                   ![r].allowed = trlAccumulate(@, res.ok),
                                   ![r].had[c.scope] = HasToken(buckets, c.key, c.rate, now)]
    /\ UNCHANGED <<now, limHist, trlStore, colVars, pxVars, budVars, fltVars, hdrVars, svcVars>>

\* trl.limiter.Status(c.key, c.rate) of the current check, the tightest
\* bucket, and the end of the iteration.
TrlStatus(r) ==
    /\ treq[r].pc = "status"
    /\ LET c == treq[r].checks[treq[r].i]
           st == Status(buckets, c.key, c.rate, now)
           last == treq[r].i = Len(treq[r].checks)
       IN  /\ buckets' = Put(buckets, c.key, st.bucket)
           /\ treq' = [treq EXCEPT ![r].pc = IF last THEN "done" ELSE "allow",
                                   ![r].i = IF last THEN @ ELSE @ + 1,
                                   ![r].out = trlTightest(@, st)]
    /\ UNCHANGED <<now, limHist, trlStore, colVars, pxVars, budVars, fltVars, hdrVars, svcVars>>

\* The call has returned and the request slot serves a new request.
TrlReturn(r) ==
    /\ treq[r].pc = "done"
    /\ treq' = [treq EXCEPT ![r] = TrlIdle]
    /\ UNCHANGED <<limVars, limHist, trlStore, colVars, pxVars, budVars, fltVars, hdrVars, svcVars>>

TrlBeginStep == \E r \in Reqs, a \in Agents, f \in BOOLEAN : TrlBegin(r, a, f)
TrlAllowStep == \E r \in Reqs : TrlAllow(r)
TrlStatusStep == \E r \in Reqs : TrlStatus(r)
TrlReturnStep == \E r \in Reqs : TrlReturn(r)

TrlAdvanceStep == \E d \in 1..TrlMaxTime : Advance(d, TrlMaxTime)

TrlNext ==
    TrlBeginStep \/ TrlAllowStep \/ TrlStatusStep \/ TrlReturnStep \/ TrlAdvanceStep

SpecToolLimit == TrlInit /\ [][TrlNext]_vars

\* The same limiter serving one request at a time, with rates that differ
\* from scope to scope.
MaxScopeRate == 2       \* largest rate stored for a tool scope
ScopeRates == 0..MaxScopeRate
SeqReq == "r1"

SeqInit ==
    /\ buckets = << >>
    /\ now = 0
    /\ HistUnused
    /\ ColUnused
    /\ PxUnused /\ BudUnused /\ FltUnused /\ HdrUnused /\ SvcUnused
    /\ \E g \in ScopeRates, rows \in [OverrideIDs -> ScopeRates] :
          trlStore = [global |-> g,
                      rows |-> [id \in {x \in OverrideIDs : rows[x] > 0} |-> rows[id]]]
    /\ treq = [r \in Reqs |-> TrlIdle]

SeqBeginStep == \E a \in Agents, f \in BOOLEAN : TrlBegin(SeqReq, a, f)
SeqAllowStep == TrlAllow(SeqReq)
SeqStatusStep == TrlStatus(SeqReq)

pxToolHeadersWhenAdmitted(tlAllowed, tlLimit, tlRemaining, tlResetAt, tlErr) ==
    IF ~tlErr /\ tlLimit > 0 /\ tlAllowed
    THEN ("X-Tool-RateLimit-Limit" :> tlLimit)
         @@ ("X-Tool-RateLimit-Remaining" :> tlRemaining)
         @@ ("X-Tool-RateLimit-Reset" :> tlResetAt)
    ELSE << >>

\* if tlErr == nil { if tlLimit > 0 { w.Header().Set(...) x 3 } ... }
pxToolHeaders(tlAllowed, tlLimit, tlRemaining, tlResetAt, tlErr) ==
    IF ~tlErr /\ tlLimit > 0
    THEN ("X-Tool-RateLimit-Limit" :> tlLimit)
         @@ ("X-Tool-RateLimit-Remaining" :> tlRemaining)
         @@ ("X-Tool-RateLimit-Reset" :> tlResetAt)
    ELSE << >>

pxToolRejectsOnError(tlAllowed, tlErr) == ~tlAllowed

\* if tlErr == nil { ... if !tlAllowed { writeError(429, ...); return } }
pxToolRejects(tlAllowed, tlErr) == ~tlErr /\ ~tlAllowed

\* The call returns to ServeHTTP, whose tool rate limiter is set: it sets the
\* headers, and writes 429 tool_rate_limited when the call denied without an
\* error; otherwise the request goes on to the budget checks.
PxToolRateReturn(r) ==
    /\ treq[r].pc = "done"
    /\ LET c == treq[r]
       IN  tresp' = [served |-> TRUE,
                     tlAllowed |-> c.allowed, tlErr |-> c.err, checked |-> Len(c.checks),
                     headers |-> pxToolHeaders(c.allowed, c.out.limit, c.out.remaining,
                                               c.out.resetAt, c.err),
                     status |-> IF pxToolRejects(c.allowed, c.err) THEN 429 ELSE 0,
                     next |-> IF pxToolRejects(c.allowed, c.err) THEN "return"
                              ELSE "budget"]
    /\ treq' = [treq EXCEPT ![r] = TrlIdle]
    /\ UNCHANGED <<limVars, limHist, trlStore, colVars, pxVars, budVars, fltVars, svcVars>>

SeqReturnStep == PxToolRateReturn(SeqReq)

SeqNext ==
    SeqBeginStep \/ SeqAllowStep \/ SeqStatusStep \/ SeqReturnStep \/ TrlAdvanceStep

SpecTightest == SeqInit /\ [][SeqNext]_vars

\* ------------------------------------------------------ metering collector
BatchSize == 2          \* Collector.batchSize
MaxTx == 4              \* transactions recorded in a run

Recorders == {"g1", "g2"}

\* The locked part of flush: nothing to do on an empty buffer; otherwise the
\* buffer is detached as the batch and replaced by a fresh slice.
flushSwapKeepsBuffer(buf) ==
    IF Len(buf) = 0
    THEN [taken |-> FALSE, batch |-> << >>, buffer |-> buf]
    ELSE [taken |-> TRUE, batch |-> buf, buffer |-> buf]

flushSwap(buf) ==
    IF Len(buf) = 0
    THEN [taken |-> FALSE, batch |-> << >>, buffer |-> buf]
    ELSE [taken |-> TRUE, batch |-> buf, buffer |-> << >>]

afterBatchInsertRequeues(buf, batch, ok) == IF ok THEN buf ELSE batch \o buf

\* The buffer after BatchInsert has returned: an error is only logged.
afterBatchInsert(buf, batch, ok) == buf

shouldFlushStrict(buf) == Len(buf) > BatchSize

\* shouldFlush := len(c.buffer) >= c.batchSize
shouldFlush(buf) == Len(buf) >= BatchSize

Running == mainPc # "exited"

ColInit ==
    /\ LimUnused /\ HistUnused /\ TrlUnused /\ PxUnused /\ BudUnused /\ FltUnused /\ HdrUnused /\ SvcUnused
    /\ buffer = << >>
    /\ doneClosed = FALSE
    /\ ctxCancelled = FALSE
    /\ worker = [pc |-> "select", batch |-> << >>, final |-> FALSE, returnedAt |-> 0]
    /\ rec = [g \in Recorders |-> [pc |-> "idle", batch |-> << >>]]
    /\ handed = << >>
    /\ mainPc = "serving"
    /\ accepting = TRUE
    /\ nextTx = 1
    /\ beforeStop = {}

\* Record, the locked part: append and decide whether to flush.
Record(g) ==
    /\ Running /\ rec[g].pc = "idle" /\ nextTx <= MaxTx
    /\ buffer' = Append(buffer, nextTx)
    /\ rec' = [rec EXCEPT ![g].pc = IF shouldFlush(buffer') THEN "flush" ELSE "idle"]
    /\ nextTx' = nextTx + 1
    /\ beforeStop' = IF doneClosed THEN beforeStop ELSE beforeStop \cup {nextTx}
    /\ UNCHANGED <<limVars, limHist, trlVars, pxVars, budVars, fltVars, hdrVars, svcVars, doneClosed, ctxCancelled, worker,
                   handed, mainPc, accepting>>

\* The size-triggered flush of Record, the locked part.
RecordFlushSwap(g) ==
    /\ Running /\ rec[g].pc = "flush"
    /\ LET f == flushSwap(buffer)
       IN  /\ buffer' = f.buffer
           /\ rec' = [rec EXCEPT ![g] = [pc |-> IF f.taken THEN "insert" ELSE "idle",
                                         batch |-> f.batch]]
    /\ UNCHANGED <<limVars, limHist, trlVars, pxVars, budVars, fltVars, hdrVars, svcVars, doneClosed, ctxCancelled, worker,
                   handed, mainPc, accepting, nextTx, beforeStop>>

\* The size-triggered flush of Record, outside the lock: BatchInsert; an
\* error is logged and the batch dropped.
RecordFlushInsert(g, ok) ==
    /\ Running /\ rec[g].pc = "insert"
    /\ handed' = Append(handed, [batch |-> rec[g].batch, ok |-> ok, by |-> g])
    /\ buffer' = afterBatchInsert(buffer, rec[g].batch, ok)
    /\ rec' = [rec EXCEPT ![g] = [pc |-> "idle", batch |-> << >>]]
    /\ UNCHANGED <<limVars, limHist, trlVars, pxVars, budVars, fltVars, hdrVars, svcVars, doneClosed, ctxCancelled,
                   worker, mainPc, accepting, nextTx, beforeStop>>

startAfterFlushLoops(final) == "select"

\* Start after c.flush(): the ctx.Done and c.done cases return, the ticker
\* case goes round the loop.
startAfterFlush(final) == IF final THEN "exited" ELSE "select"

\* The worker's select takes a case (final: ctx.Done or c.done) and runs the
\* locked part of flush.  returnedAt remembers the first transaction number
\* not yet recorded when the final flush was over.
WorkerFlushSwap(final) ==
    /\ Running /\ worker.pc = "select"
    /\ LET f == flushSwap(buffer)
       IN  /\ buffer' = f.buffer
           /\ worker' = [pc |-> IF f.taken THEN "insert" ELSE startAfterFlush(final),
                         batch |-> f.batch, final |-> final,
                         returnedAt |-> IF ~f.taken /\ final THEN nextTx ELSE 0]
    /\ UNCHANGED <<limVars, limHist, trlVars, pxVars, budVars, fltVars, hdrVars, svcVars, doneClosed, ctxCancelled, rec,
                   handed, mainPc, accepting, nextTx, beforeStop>>

\* case <-ticker.C: c.flush()
WorkerTick == WorkerFlushSwap(FALSE)

\* case <-c.done: c.flush(); return
WorkerOnDone == doneClosed /\ WorkerFlushSwap(TRUE)

\* case <-ctx.Done(): c.flush(); return
WorkerOnCancel == ctxCancelled /\ WorkerFlushSwap(TRUE)

\* The worker's BatchInsert, outside the lock; after a final flush Start
\* returns.
WorkerInsert(ok) ==
    /\ Running /\ worker.pc = "insert"
    /\ handed' = Append(handed, [batch |-> worker.batch, ok |-> ok, by |-> "worker"])
    /\ buffer' = afterBatchInsert(buffer, worker.batch, ok)
    /\ worker' = [pc |-> startAfterFlush(worker.final),
                  batch |-> << >>, final |-> worker.final,
                  returnedAt |-> IF worker.final THEN nextTx ELSE 0]
    /\ UNCHANGED <<limVars, limHist, trlVars, pxVars, budVars, fltVars, hdrVars, svcVars, doneClosed, ctxCancelled,
                   rec, mainPc, accepting, nextTx, beforeStop>>

\* Collector.Stop: close(c.done), and Stop returns.
Stop ==
    /\ doneClosed' = TRUE
    /\ UNCHANGED <<buffer, ctxCancelled, worker, rec, handed, accepting, nextTx,
                   beforeStop>>

\* runServe after the signal: collector.Stop() has returned.
MainStop ==
    /\ mainPc = "serving"
    /\ Stop
    /\ mainPc' = "stopped"
    /\ UNCHANGED <<limVars, limHist, trlVars, pxVars, budVars, fltVars, hdrVars, svcVars>>

\* runServe: srv.Shutdown(shutdownCtx) closes the listeners.
MainShutdown ==
    /\ mainPc = "stopped"
    /\ accepting' = FALSE
    /\ mainPc' = "draining"
    /\ UNCHANGED <<limVars, limHist, trlVars, pxVars, budVars, fltVars, hdrVars, svcVars, buffer, doneClosed, ctxCancelled,
                   worker, rec, handed, nextTx, beforeStop>>

\* runServe: Shutdown has returned (the connections are idle, or the 10 s
\* are over) and the deferred cancel() of the worker's context runs.
MainReturn ==
    /\ mainPc = "draining"
    /\ ctxCancelled' = TRUE
    /\ mainPc' = "returning"
    /\ UNCHANGED <<limVars, limHist, trlVars, pxVars, budVars, fltVars, hdrVars, svcVars, buffer, doneClosed, worker, rec,
                   handed, accepting, nextTx, beforeStop>>

\* main returns and the process ends with every goroutine.
MainExit ==
    /\ mainPc = "returning"
    /\ mainPc' = "exited"
    /\ UNCHANGED <<limVars, limHist, trlVars, pxVars, budVars, fltVars, hdrVars, svcVars, buffer, doneClosed, ctxCancelled,
                   worker, rec, handed, accepting, nextTx, beforeStop>>

RecordStep == \E g \in Recorders : Record(g)
RecordFlushSwapStep == \E g \in Recorders : RecordFlushSwap(g)
RecordFlushInsertStep == \E g \in Recorders, ok \in BOOLEAN : RecordFlushInsert(g, ok)
WorkerInsertStep == \E ok \in BOOLEAN : WorkerInsert(ok)

ColNext ==
    \/ RecordStep \/ RecordFlushSwapStep \/ RecordFlushInsertStep
    \/ WorkerTick \/ WorkerOnDone \/ WorkerOnCancel \/ WorkerInsertStep
    \/ MainStop \/ MainShutdown \/ MainReturn \/ MainExit

SpecCollector == ColInit /\ [][ColNext]_vars

\* The collector with the scheduling its code relies on: the ticker keeps
\* firing while the worker waits in its select, and a goroutine that has
\* begun a flush goes on to finish it.
ColFairness ==
    /\ WF_vars(WorkerTick)
    /\ WF_vars(WorkerInsertStep)
    /\ WF_vars(RecordFlushSwapStep)
    /\ WF_vars(RecordFlushInsertStep)

SpecCollectorLive == ColInit /\ [][ColNext]_vars /\ ColFairness

\* ------------------------------------------------------------ proxy handler
MaxBody == 2            \* longest upstream response body, in bytes
PxMaxTime == 1          \* the clock stops advancing here

PxReqs == {"q1", "q2"}
\* agent.RateLimit: a1 has a custom rate, a2 uses the default.
RateLimitOf(agentID) == IF agentID = "a1" THEN 1 ELSE 0
UpstreamStatuses == {200, 500}

\* The stages of /proxy/{toolID}/*: the two middlewares of the route, then
\* Handler.ServeHTTP from top to bottom.
StageOrder ==
    <<"auth", "ratelimit", "lookup", "toolrate", "budget", "gbudget", "template",
      "upstream">>

NoResp == [status |-> 0, code |-> "", by |-> ""]

PxNew ==
    [pc |-> "auth", agent |-> "", tool |-> "", mode |-> "", trace |-> << >>,
     resp |-> NoResp, failed |-> "", upstreamCalls |-> 0, status |-> 0,
     bodyLen |-> 0, headersWritten |-> FALSE, copied |-> 0, copyDone |-> FALSE]

pxNextPcBudgetFirst(stage) ==
    CASE stage = "auth" -> "rl_status"
      [] stage = "ratelimit" -> "lookup"
      [] stage = "lookup" -> "budget"
      [] stage = "budget" -> "toolrate"
      [] stage = "toolrate" -> "gbudget"
      [] stage = "gbudget" -> "template"
      [] stage = "template" -> "build"
      [] stage = "build" -> "upstream"

\* Where a request goes when a stage lets it pass: the next statement of the
\* route's middleware chain and of ServeHTTP.
pxNextPc(stage) ==
    CASE stage = "auth" -> "rl_status"
      [] stage = "ratelimit" -> "lookup"
      [] stage = "lookup" -> "toolrate"
      [] stage = "toolrate" -> "budget"
      [] stage = "budget" -> "gbudget"
      [] stage = "gbudget" -> "template"
      [] stage = "template" -> "build"
      [] stage = "build" -> "upstream"

pxAfterRejectFallsThrough(stage) == pxNextPc(stage)

\* Every rejection is followed by return.
pxAfterReject(stage) == "done"

\* The first WriteHeader of a request decides its response.
Respond(q, status, code, by) ==
    IF q.resp = NoResp THEN [status |-> status, code |-> code, by |-> by] ELSE q.resp

\* The request after a stage: the stage is in its trace (failed remembers the
\* first stage whose check failed), and it is rejected with (status, code)
\* or passes on.
AfterStage(q, stage, rejected, status, code) ==
    LET t == [q EXCEPT !.trace = Append(@, stage),
                       !.failed = IF rejected /\ @ = "" THEN stage ELSE @]
    IN  IF rejected
        THEN [t EXCEPT !.pc = pxAfterReject(stage), !.resp = Respond(q, status, code, stage)]
        ELSE [t EXCEPT !.pc = pxNextPc(stage)]

PxInit ==
    /\ buckets = << >>
    /\ now = 0
    /\ HistUnused /\ TrlUnused /\ ColUnused /\ BudUnused /\ FltUnused /\ HdrUnused /\ SvcUnused
    /\ preq = [q \in PxReqs |-> PxNew]
    /\ pxRecorded = << >>
    /\ pxToolLimits \in BOOLEAN

PxFrame == UNCHANGED <<limHist, trlVars, colVars, pxToolLimits, budVars, fltVars, hdrVars, svcVars>>

\* auth.AgentAuthMiddleware: the agent of the bearer key, or 401 when the
\* token is missing or no agent has its hash (agentID = "").
PxAuth(q, agentID) ==
    /\ preq[q].pc = "auth"
    /\ preq' = [preq EXCEPT ![q] =
          AfterStage([@ EXCEPT !.agent = agentID], "auth", agentID = "", 401, "unauthorized")]
    /\ UNCHANGED <<limVars, pxRecorded>> /\ PxFrame

\* ratelimit.Middleware: limiter.Status for the X-RateLimit headers.
PxRateStatus(q) ==
    /\ preq[q].pc = "rl_status"
    /\ LET st == Status(buckets, preq[q].agent, RateLimitOf(preq[q].agent), now)
       IN  buckets' = Put(buckets, preq[q].agent, st.bucket)
    /\ preq' = [preq EXCEPT ![q].pc = "rl_allow"]
    /\ UNCHANGED <<now, pxRecorded>> /\ PxFrame

\* ratelimit.Middleware: limiter.Allow, 429 rate_limited when it denies.
PxRateAllow(q) ==
    /\ preq[q].pc = "rl_allow"
    /\ LET res == Allow(buckets, preq[q].agent, RateLimitOf(preq[q].agent), now)
       IN  /\ buckets' = Put(buckets, preq[q].agent, res.bucket)
           /\ preq' = [preq EXCEPT ![q] =
                 AfterStage(@, "ratelimit", ~res.ok, 429, "rate_limited")]
    /\ UNCHANGED <<now, pxRecorded>> /\ PxFrame

\* ServeHTTP: the toolID of the URL (400 when empty), h.tools.GetByID (404
\* on any error) and the agent of the context (401 when nil).
PxLookup(q, toolID, found, mode) ==
    /\ preq[q].pc = "lookup"
    /\ LET r == preq[q]
       IN  preq' = [preq EXCEPT ![q] =
              IF toolID = ""
              THEN [r EXCEPT !.pc = "done", !.resp = Respond(r, 400, "bad_request", "toolid")]
              ELSE IF ~found
              THEN AfterStage(r, "lookup", TRUE, 404, "not_found")
              ELSE IF r.agent = ""
              THEN [r EXCEPT !.pc = "done", !.trace = Append(r.trace, "lookup"),
                             !.resp = Respond(r, 401, "unauthorized", "agentctx")]
              ELSE AfterStage([r EXCEPT !.tool = toolID, !.mode = mode], "lookup",
                              FALSE, 0, "")]
    /\ UNCHANGED <<limVars, pxRecorded>> /\ PxFrame

\* ServeHTTP: CheckToolRateLimit when a checker is set; only a result
\* without an error counts, and a denial is 429 tool_rate_limited. (The
\* X-RateLimit headers it sets on the way are not part of the state.)
PxToolRate(q, tlAllowed, tlErr) ==
    /\ preq[q].pc = "toolrate"
    /\ preq' = [preq EXCEPT ![q] =
          AfterStage(@, "toolrate", pxToolLimits /\ pxToolRejects(tlAllowed, tlErr),
                     429, "tool_rate_limited")]
    /\ UNCHANGED <<limVars, pxRecorded>> /\ PxFrame

pxBudgetRejectsOnError(allowed, err) == ~allowed

\* if err == nil && !allowed { writeError(403, "budget_exceeded"); return }
pxBudgetRejects(allowed, err) == ~err /\ ~allowed

\* ServeHTTP: h.budgets.CheckBudget; err == nil && !allowed is 403.
PxBudget(q, allowed, err) ==
    /\ preq[q].pc = "budget"
    /\ preq' = [preq EXCEPT ![q] =
          AfterStage(@, "budget", pxBudgetRejects(allowed, err), 403, "budget_exceeded")]
    /\ UNCHANGED <<limVars, pxRecorded>> /\ PxFrame

\* ServeHTTP: h.budgets.CheckToolGlobalBudget; err == nil && !allowed is 403.
PxGlobalBudget(q, allowed, err) ==
    /\ preq[q].pc = "gbudget"
    /\ preq' = [preq EXCEPT ![q] =
          AfterStage(@, "gbudget", pxBudgetRejects(allowed, err), 403, "budget_exceeded")]
    /\ UNCHANGED <<limVars, pxRecorded>> /\ PxFrame

\* ServeHTTP: registry.ResolveTemplate for an api-mode tool; 502 on error.
PxTemplate(q, resolves) ==
    /\ preq[q].pc = "template"
    /\ preq' = [preq EXCEPT ![q] =
          AfterStage(@, "template", @.mode = "api" /\ ~resolves, 502, "proxy_error")]
    /\ UNCHANGED <<limVars, pxRecorded>> /\ PxFrame

\* ServeHTTP: the target URL and http.NewRequestWithContext; 502 on error.
PxBuild(q, ok) ==
    /\ preq[q].pc = "build"
    /\ preq' = [preq EXCEPT ![q] =
          IF ok
          THEN [@ EXCEPT !.pc = pxNextPc("build")]
          ELSE [@ EXCEPT !.pc = "done", !.resp = Respond(preq[q], 502, "proxy_error", "build")]]
    /\ UNCHANGED <<limVars, pxRecorded>> /\ PxFrame

pxRecordDropped(recorded, tx) == recorded

\* h.collector.Record(tx)
pxRecord(recorded, tx) == Append(recorded, tx)

pxResponseSizeFromLength(q) == q.bodyLen

\* responseSize, _ := io.Copy(w, resp.Body)
pxResponseSize(q) == q.copied

\* The transaction recordTransaction builds for a request.
pxTransaction(qid, q, statusCode, responseSize, success) ==
    [req |-> qid, agent_id |-> q.agent, tool_id |-> q.tool, status_code |-> statusCode,
     response_size |-> responseSize, success |-> success]

pxErrorTransactionNoStatus(qid, q) == pxTransaction(qid, q, 0, 0, FALSE)

\* h.recordTransaction(agent.ID, tool, r, 502, latency, 0, 0, false, "")
pxErrorTransaction(qid, q) == pxTransaction(qid, q, 502, 0, FALSE)

\* ServeHTTP: h.client.Do fails: the transaction is recorded with 502 and
\* the client gets 502 proxy_error.
PxUpstreamError(q) ==
    /\ preq[q].pc = "upstream"
    /\ pxRecorded' = pxRecord(pxRecorded, pxErrorTransaction(q, preq[q]))
    /\ preq' = [preq EXCEPT ![q] =
          [@ EXCEPT !.trace = Append(@, "upstream"), !.failed = "upstream",
                    !.upstreamCalls = @ + 1, !.pc = "done",
                    !.resp = Respond(preq[q], 502, "proxy_error", "upstream")]]
    /\ UNCHANGED limVars /\ PxFrame

\* ServeHTTP: h.client.Do returns a response with a body of bodyLen bytes.
PxUpstreamResponse(q, status, bodyLen) ==
    /\ preq[q].pc = "upstream"
    /\ preq' = [preq EXCEPT ![q] =
          [@ EXCEPT !.trace = Append(@, "upstream"), !.upstreamCalls = @ + 1,
                    !.status = status, !.bodyLen = bodyLen, !.pc = "headers"]]
    /\ UNCHANGED <<limVars, pxRecorded>> /\ PxFrame

\* ServeHTTP: the upstream headers are copied and the status is written.
PxWriteHeaders(q) ==
    /\ preq[q].pc = "headers"
    /\ preq' = [preq EXCEPT ![q] =
          [@ EXCEPT !.headersWritten = TRUE, !.pc = "copy",
                    !.resp = Respond(preq[q], preq[q].status, "", "upstream")]]
    /\ UNCHANGED <<limVars, pxRecorded>> /\ PxFrame

\* ServeHTTP: io.Copy(w, resp.Body) returns after n bytes: all of the body,
\* or fewer when a read from upstream or a write to the client fails.
PxCopyBody(q, n) ==
    /\ preq[q].pc = "copy"
    /\ n <= preq[q].bodyLen
    /\ preq' = [preq EXCEPT ![q] = [@ EXCEPT !.copied = n, !.copyDone = TRUE, !.pc = "record"]]
    /\ UNCHANGED <<limVars, pxRecorded>> /\ PxFrame

\* ServeHTTP: recordTransaction with the outcome of the call.
PxRecord(q) ==
    /\ preq[q].pc = "record"
    /\ pxRecorded' = pxRecord(pxRecorded,
          pxTransaction(q, preq[q], preq[q].status, pxResponseSize(preq[q]),
                        preq[q].status >= 200 /\ preq[q].status < 300))
    /\ preq' = [preq EXCEPT ![q].pc = "done"]
    /\ UNCHANGED limVars /\ PxFrame

\* The clock advances.
PxAdvance(d) ==
    /\ now + d <= PxMaxTime
    /\ now' = now + d
    /\ UNCHANGED <<buckets, preq, pxRecorded>> /\ PxFrame

PxAuthStep == \E q \in PxReqs, a \in Agents \cup {""} : PxAuth(q, a)
PxRateStatusStep == \E q \in PxReqs : PxRateStatus(q)
PxRateAllowStep == \E q \in PxReqs : PxRateAllow(q)
PxLookupStep ==
    \E q \in PxReqs, t \in {"", ToolID}, found \in BOOLEAN, mode \in {"service", "api"} :
        PxLookup(q, t, found, mode)
PxToolRateStep == \E q \in PxReqs, a \in BOOLEAN, e \in BOOLEAN : PxToolRate(q, a, e)
PxBudgetStep == \E q \in PxReqs, a \in BOOLEAN, e \in BOOLEAN : PxBudget(q, a, e)
PxGlobalBudgetStep == \E q \in PxReqs, a \in BOOLEAN, e \in BOOLEAN : PxGlobalBudget(q, a, e)
PxTemplateStep == \E q \in PxReqs, ok \in BOOLEAN : PxTemplate(q, ok)
PxBuildStep == \E q \in PxReqs, ok \in BOOLEAN : PxBuild(q, ok)
PxUpstreamErrorStep == \E q \in PxReqs : PxUpstreamError(q)
PxUpstreamResponseStep ==
    \E q \in PxReqs, st \in UpstreamStatuses, n \in 0..MaxBody : PxUpstreamResponse(q, st, n)
PxWriteHeadersStep == \E q \in PxReqs : PxWriteHeaders(q)
PxCopyBodyStep == \E q \in PxReqs, n \in 0..MaxBody : PxCopyBody(q, n)
PxRecordStep == \E q \in PxReqs : PxRecord(q)
PxAdvanceStep == \E d \in 1..PxMaxTime : PxAdvance(d)

PxNext ==
    \/ PxAuthStep \/ PxRateStatusStep \/ PxRateAllowStep \/ PxLookupStep
    \/ PxToolRateStep \/ PxBudgetStep \/ PxGlobalBudgetStep \/ PxTemplateStep
    \/ PxBuildStep \/ PxUpstreamErrorStep \/ PxUpstreamResponseStep
    \/ PxWriteHeadersStep \/ PxCopyBodyStep \/ PxRecordStep \/ PxAdvanceStep

SpecProxy == PxInit /\ [][PxNext]_vars

\* ------------------------------------------------------------ budget store
MaxBTx == 2             \* rows in the transactions table
BMaxTime == 2           \* the clock stops advancing here
DayLen == 1             \* ticks in a UTC day
MonthLen == 2           \* ticks in a UTC month

\* Money is counted in units of 10^-6, the scale of NUMERIC(12,6).
\* daily_limit, monthly_limit and budget_limit are unchecked numbers.
Limits == {-1, 0, 2}
Windows == {"daily", "monthly", "weekly"}
\* The checks are made for agent a1 on tool T1; the table also holds rows of
\* another agent and of another tool. A row is (agent_id, tool_id, cost).
BAgent == "a1"
BTool == "T1"
TxKinds == {<<"a1", "T1", 1>>, <<"a1", "T1", 2>>, <<"a2", "T1", 1>>, <<"a1", "T2", 1>>}

NoRow == [exists |-> FALSE, daily |-> 0, monthly |-> 0]
BudgetRows ==
    {NoRow} \cup [exists : {TRUE}, daily : Limits, monthly : Limits]
ToolBudgets == [limit : Limits, window : Windows]

\* time.Date(now.Year(), now.Month(), now.Day(), 0, 0, 0, 0, time.UTC)
startOfDay(t) == t - (t % DayLen)
\* time.Date(now.Year(), now.Month(), 1, 0, 0, 0, 0, time.UTC)
startOfMonth(t) == t - (t % MonthLen)

RECURSIVE SumCost(_)
SumCost(rows) == IF Len(rows) = 0 THEN 0 ELSE Head(rows).cost + SumCost(Tail(rows))

\* SELECT COALESCE(SUM(cost), 0) FROM transactions
\*  WHERE agent_id = $1 AND tool_id = $2 AND timestamp >= $3
agentSpend(rows, agentID, toolID, since) ==
    LET Match(x) == x.agent_id = agentID /\ x.tool_id = toolID /\ x.timestamp >= since
    IN  SumCost(SelectSeq(rows, Match))

\* SELECT COALESCE(SUM(cost), 0) FROM transactions
\*  WHERE tool_id = $1 AND timestamp >= $2
toolSpend(rows, toolID, since) ==
    LET Match(x) == x.tool_id = toolID /\ x.timestamp >= since
    IN  SumCost(SelectSeq(rows, Match))

\* remaining = limit - spend; if remaining < 0 { remaining = 0 }
remainingOf(limit, spend) == IF limit - spend < 0 THEN 0 ELSE limit - spend

BudgetError == [allowed |-> FALSE, remainingDaily |-> 0, remainingMonthly |-> 0, err |-> TRUE]

\* BudgetStore.CheckBudget: row is what s.Get finds, dayFails and monthFails
\* say whether the two spend queries fail.
CheckBudget(row, rows, agentID, toolID, t, dayFails, monthFails) ==
    IF ~row.exists \/ dayFails \/ monthFails
    THEN BudgetError
    ELSE LET dailySpend == agentSpend(rows, agentID, toolID, startOfDay(t))
             monthlySpend == agentSpend(rows, agentID, toolID, startOfMonth(t))
         IN  [allowed |-> /\ ~(row.daily > 0 /\ dailySpend >= row.daily)
                          /\ ~(row.monthly > 0 /\ monthlySpend >= row.monthly),
              remainingDaily |->
                  IF row.daily > 0 THEN remainingOf(row.daily, dailySpend) ELSE 0,
              remainingMonthly |->
                  IF row.monthly > 0 THEN remainingOf(row.monthly, monthlySpend) ELSE 0,
              err |-> FALSE]

budgetWindowStartUnknownDaily(window, t) ==
    IF window = "monthly" THEN startOfMonth(t) ELSE startOfDay(t)

\* switch budgetWindow { case "daily": ..; case "monthly": ..; default: .. }
budgetWindowStart(window, t) ==
    IF window = "daily" THEN startOfDay(t) ELSE startOfMonth(t)

\* BudgetStore.CheckToolGlobalBudget: cfg is the tool's budget_limit and
\* budget_window, cfgFails and sumFails say whether the two queries fail.
CheckToolGlobalBudget(cfg, rows, toolID, t, cfgFails, sumFails) ==
    IF cfgFails
    THEN [allowed |-> FALSE, remaining |-> 0, err |-> TRUE]
    ELSE IF cfg.limit = 0
    THEN [allowed |-> TRUE, remaining |-> 0, err |-> FALSE]
    ELSE IF sumFails
    THEN [allowed |-> FALSE, remaining |-> 0, err |-> TRUE]
    ELSE LET totalSpend == toolSpend(rows, toolID, budgetWindowStart(cfg.window, t))
         IN  [allowed |-> totalSpend < cfg.limit,
              remaining |-> remainingOf(cfg.limit, totalSpend),
              err |-> FALSE]

\* Where ServeHTTP goes after a budget check.
pxAfterBudget(stage, allowed, err) ==
    IF pxBudgetRejects(allowed, err) THEN pxAfterReject(stage) ELSE pxNextPc(stage)

BudInit ==
    /\ LimUnused /\ HistUnused /\ TrlUnused /\ ColUnused /\ PxUnused /\ FltUnused /\ HdrUnused /\ SvcUnused
    /\ transactions = << >>
    /\ bclock = 0
    /\ bcall = [op |-> "none"]

BudFrame == UNCHANGED <<limVars, limHist, trlVars, colVars, pxVars, fltVars, hdrVars, svcVars>>

\* The store's BatchInsert adds the row of a transaction recorded now; the
\* result of an earlier check is history.
BgtInsert(agentID, toolID, cost) ==
    /\ Len(transactions) < MaxBTx
    /\ transactions' = Append(transactions,
          [agent_id |-> agentID, tool_id |-> toolID, cost |-> cost, timestamp |-> bclock])
    /\ bcall' = [op |-> "none"]
    /\ UNCHANGED bclock /\ BudFrame

\* Time passes.
BgtAdvance ==
    /\ bclock < BMaxTime
    /\ bclock' = bclock + 1
    /\ bcall' = [op |-> "none"]
    /\ UNCHANGED transactions /\ BudFrame

\* ServeHTTP's agent budget stage: CheckBudget and what the handler does
\* with the result.
BgtCheckBudget(row, dayFails, monthFails) ==
    /\ LET res == CheckBudget(row, transactions, BAgent, BTool, bclock, dayFails, monthFails)
       IN  bcall' = [op |-> "CheckBudget", row |-> row,
                     queryFails |-> dayFails \/ monthFails,
                     res |-> res, next |-> pxAfterBudget("budget", res.allowed, res.err)]
    /\ UNCHANGED <<transactions, bclock>> /\ BudFrame

\* ServeHTTP's global budget stage: CheckToolGlobalBudget and what the
\* handler does with the result.
BgtCheckGlobal(cfg, cfgFails, sumFails) ==
    /\ LET res == CheckToolGlobalBudget(cfg, transactions, BTool, bclock, cfgFails, sumFails)
       IN  bcall' = [op |-> "CheckToolGlobalBudget", cfg |-> cfg,
                     queryFails |-> cfgFails \/ sumFails,
                     res |-> res, next |-> pxAfterBudget("gbudget", res.allowed, res.err)]
    /\ UNCHANGED <<transactions, bclock>> /\ BudFrame

BgtInsertStep == \E k \in TxKinds : BgtInsert(k[1], k[2], k[3])
\* At most one query of a check fails: the check returns at the first error.
BgtCheckBudgetStep ==
    \E row \in BudgetRows, f \in {"none", "day", "month"} :
        BgtCheckBudget(row, f = "day", f = "month")
BgtCheckGlobalStep ==
    \E cfg \in ToolBudgets, f \in {"none", "config", "sum"} :
        BgtCheckGlobal(cfg, f = "config", f = "sum")

BudNext == BgtInsertStep \/ BgtAdvance \/ BgtCheckBudgetStep \/ BgtCheckGlobalStep

SpecBudget == BudInit /\ [][BudNext]_vars

\* ------------------------------------------------- the refill in float64
\* bucket.tokens is a float64, and refill computes
\*     elapsed * (float64(rate) / window.Seconds())
\* with two roundings.  Here a positive float64 is [h, m, l, exp]: its
\* significand of MantissaBits bits is cut into the limbs h (the top TopBits
\* bits, the first of them 1), m and l (LimbBits bits each), and its value
\* is (h * Limb * Limb + m * Limb + l) * 2^exp.  The clock counts whole
\* seconds, which float64 holds exactly.
MantissaBits == 53      \* the significand of a float64
WindowSecs == 60        \* l.window.Seconds() of the default window, a minute
FpMaxRate == 90         \* largest rate of the bucket
FpRates == 1..FpMaxRate

LimbBits == (MantissaBits + 1) \div 3
TopBits == MantissaBits - 2 * LimbBits
Limb == 2 ^ LimbBits
Top == 2 ^ TopBits

\* a / b scaled by a power of two into [1, 2): a/b = (s.a / s.b) * 2^s.e.
RECURSIVE fpScale(_, _, _)
fpScale(a, b, e) ==
    IF a >= 2 * b THEN fpScale(a, 2 * b, e + 1)
    ELSE IF a < b THEN fpScale(2 * a, b, e - 1)
    ELSE [a |-> a, b |-> b, e |-> e]

\* The float64 next above x.
fpInc(x) ==
    IF x.l + 1 < Limb THEN [x EXCEPT !.l = @ + 1]
    ELSE IF x.m + 1 < Limb THEN [x EXCEPT !.l = 0, !.m = @ + 1]
    ELSE IF x.h + 1 < Top THEN [x EXCEPT !.l = 0, !.m = 0, !.h = @ + 1]
    ELSE [h |-> Top \div 2, m |-> 0, l |-> 0, exp |-> x.exp + 1]

\* Rounding to nearest, ties to even: x is the exact value cut off after
\* MantissaBits bits, and what was cut off is twiceRest / (2 * unit) of the
\* last bit kept.
fpRound(x, twiceRest, unit) ==
    IF twiceRest > unit \/ (twiceRest = unit /\ x.l % 2 = 1) THEN fpInc(x) ELSE x

\* float64(a) / float64(b) for positive integers a and b: long division, a
\* limb at a time.
fpDiv(a, b) ==
    LET s == fpScale(a, b, 0)
        n1 == s.a * (Top \div 2)
        n2 == (n1 % s.b) * Limb
        n3 == (n2 % s.b) * Limb
    IN  fpRound([h |-> n1 \div s.b, m |-> n2 \div s.b, l |-> n3 \div s.b,
                 exp |-> s.e - (MantissaBits - 1)],
                2 * (n3 % s.b), s.b)

\* float64(n) * x for a positive integer n below Limb, which float64 holds
\* exactly: the exact product, limb by limb with carries, shifted right by
\* the k bits it has grown and rounded.
fpMul(n, x) ==
    LET pl == x.l * n
        pm == x.m * n + pl \div Limb
        ph == x.h * n + pm \div Limb
        l0 == pl % Limb
        m0 == pm % Limb
        k == CHOOSE i \in 0..LimbBits : Top \div 2 <= ph \div 2^i /\ ph \div 2^i < Top
        p == 2 ^ k
    IN  fpRound([h |-> ph \div p,
                 m |-> ((ph % p) * Limb + m0) \div p,
                 l |-> ((m0 % p) * Limb + l0) \div p,
                 exp |-> x.exp + k],
                2 * (l0 % p), p)

\* A float64 below 2^TopBits as its integer part and whether it has a
\* fractional part.
fpSplit(x) ==
    LET n == MantissaBits + x.exp
        q == 2 ^ (TopBits - n)
    IN  IF n <= 0 THEN [whole |-> 0, frac |-> TRUE]
        ELSE [whole |-> x.h \div q,
              frac |-> x.h % q # 0 \/ x.m # 0 \/ x.l # 0]

\* A new bucket: tokens is float64(rate).
getBucketFloat64(rate, t) ==
    [tokens |-> [whole |-> rate, frac |-> FALSE], lastRefill |-> t, rate |-> rate]

\* refill of a bucket whose tokens are 0.0 when time has passed: 0.0 + x is x.
refillFloat64(b, t) ==
    LET elapsed == t - b.lastRefill
        refillRate == fpDiv(b.rate, WindowSecs)
        tokens == fpSplit(fpMul(elapsed, refillRate))
        over == tokens.whole > b.rate \/ (tokens.whole = b.rate /\ tokens.frac)
    IN  IF elapsed <= 0 THEN b
        ELSE [b EXCEPT !.tokens = IF over THEN [whole |-> b.rate, frac |-> FALSE]
                                  ELSE tokens,
                       !.lastRefill = t]

\* Allow: b.tokens < 1 denies; b.tokens-- is exact on a float64 of this size
\* and leaves the fractional part alone.
AllowFloat64(b, t) ==
    LET r == refillFloat64(b, t)
    IN  IF r.tokens.whole < 1 THEN [ok |-> FALSE, b |-> r]
        ELSE [ok |-> TRUE, b |-> [r EXCEPT !.tokens.whole = @ - 1]]

FltInit ==
    /\ LimUnused /\ HistUnused /\ TrlUnused /\ ColUnused /\ PxUnused /\ BudUnused /\ HdrUnused /\ SvcUnused
    /\ \E rate \in FpRates : fbucket = getBucketFloat64(rate, 0)
    /\ frun = [now |-> 0, grants |-> 0, denied |-> FALSE]

FltFrame == UNCHANGED <<limVars, limHist, trlVars, colVars, pxVars, budVars, hdrVars, svcVars>>

\* One l.Allow(key, rate) on the bucket.
FltAllow ==
    /\ LET r == AllowFloat64(fbucket, frun.now)
       IN  /\ fbucket' = r.b
           /\ frun' = [frun EXCEPT !.grants = IF r.ok THEN @ + 1 ELSE @,
                                   !.denied = ~r.ok]
    /\ FltFrame

\* The clock moves forward by d seconds, less than the window, once the bucket
\* has been emptied.
FltAdvance(d) ==
    /\ frun.now = 0
    /\ fbucket.tokens = [whole |-> 0, frac |-> FALSE]
    /\ frun' = [now |-> d, grants |-> 0, denied |-> FALSE]
    /\ UNCHANGED fbucket
    /\ FltFrame

FltAdvanceStep == \E d \in 1..(WindowSecs - 1) : FltAdvance(d)

FltNext == FltAllow \/ FltAdvanceStep

SpecRefill == FltInit /\ [][FltNext]_vars

\* --------------------------------------------------- the upstream request
\* ServeHTTP from the new upstream request to client.Do: the client's headers
\* are copied, the tool's credential is injected.  A header is a name with
\* its values in order; a query string is the sequence of its name=value
\* pairs, ok telling whether url.ParseQuery accepts the pair.
MaxQuery == 2           \* pairs in the client's query string

ClientHeaderNames == {"Authorization", "Host", "Connection", "X-Custom", "X-Api-Key"}
\* What the client sent under a header name; its Authorization is its API key.
ClientValue(name) == IF name = "Authorization" THEN "Bearer agent-key" ELSE "client " \o name
ClientHeaders ==
    {[n \in S |-> <<ClientValue(n)>>] : S \in SUBSET ClientHeaderNames}
ClientPairs ==
    {[name |-> "bar", value |-> "baz", ok |-> TRUE],
     [name |-> "api_key", value |-> "mine", ok |-> TRUE],
     [name |-> "token", value |-> "t0", ok |-> TRUE],
     [name |-> "b", value |-> "%zz", ok |-> FALSE]}
ClientQueries == UNION {[1..n -> ClientPairs] : n \in 0..MaxQuery}
\* url.Values.Encode writes the keys in sorted order.
SortedParams == <<"api_key", "b", "bar", "token">>

ToolKey == "s123"
AuthTypes == {"none", "bearer", "header", "query"}
HeaderNames == {"", "X-Api-Key", "Authorization"}
ParamNames == {"", "token"}

skipHeadersWithoutAuthorization == {"Host", "Connection"}

\* skipHeaders: Authorization, Host and Connection are not forwarded.
skipHeaders == {"Authorization", "Host", "Connection"}

\* for key, values := range r.Header { if skipHeaders[key] { continue } ... }
forwardHeaders(h) == [n \in DOMAIN h \ skipHeaders |-> h[n]]

\* outReq.Header.Set(name, value)
HeaderSet(h, name, value) == (name :> <<value>>) @@ h

\* outReq.URL.Query(): the pairs url.ParseQuery accepts, by name, in order.
Query(q) ==
    [n \in {q[i].name : i \in {j \in 1..Len(q) : q[j].ok}} |->
        LET Named(p) == p.ok /\ p.name = n
            ps == SelectSeq(q, Named)
        IN  [i \in 1..Len(ps) |-> ps[i].value]]

\* url.Values.Encode(): the values key by key, the keys sorted.
RECURSIVE Encode(_, _)
Encode(vals, i) ==
    IF i > Len(SortedParams) THEN << >>
    ELSE LET n == SortedParams[i]
         IN  (IF n \in DOMAIN vals
              THEN [k \in 1..Len(vals[n]) |-> [name |-> n, value |-> vals[n][k], ok |-> TRUE]]
              ELSE << >>) \o Encode(vals, i + 1)

queryAuthAlone(q, paramName, key) ==
    Encode((paramName :> <<key>>), 1)

\* q := outReq.URL.Query(); q.Set(paramName, key); RawQuery = q.Encode()
queryAuth(q, paramName, key) ==
    Encode((paramName :> <<key>>) @@ Query(q), 1)

\* switch tool.AuthType: the credential goes into the upstream request.
injectAuth(out, tool) ==
    CASE tool.authType = "bearer" ->
           [out EXCEPT !.headers = HeaderSet(@, "Authorization", "Bearer " \o tool.key)]
      [] tool.authType = "header" ->
           IF tool.headerName # ""
           THEN [out EXCEPT !.headers = HeaderSet(@, tool.headerName, tool.key)]
           ELSE out
      [] tool.authType = "query" ->
           [out EXCEPT !.query =
               queryAuth(@, IF tool.paramName = "" THEN "api_key" ELSE tool.paramName,
                         tool.key)]
      [] OTHER -> out

\* The upstream request handed to client.Do.
upstreamRequest(req, tool) ==
    injectAuth([sent |-> TRUE, headers |-> forwardHeaders(req.headers),
                query |-> req.query], tool)

NotSent == [sent |-> FALSE]

UpInit ==
    /\ CoreUnused /\ SesUnused /\ RegUnused
    /\ \E h \in ClientHeaders, q \in ClientQueries,
          t \in [authType : AuthTypes, key : {ToolKey}, headerName : HeaderNames,
                 paramName : ParamNames] :
          args = [req |-> [headers |-> h, query |-> q], tool |-> t]
    /\ ret = NotSent

UpFrame == CoreFrame /\ UNCHANGED <<sesVars, regVars>>

UpBuild ==
    /\ ~ret.sent
    /\ ret' = upstreamRequest(args.req, args.tool)
    /\ UNCHANGED args
    /\ UpFrame

UpNext == UpBuild

SpecUpstream == UpInit /\ [][UpNext]_vars

\* ----------------------------------------------------- the recorded cost
\* recordTransaction's choice of Cost and CostSource.  A float64 is a number
\* of hundredths, +Inf or NaN; strconv.ParseFloat is given on the header
\* texts the upstream may send.
Num(n) == [kind |-> "num", n |-> n]
PosInf == [kind |-> "inf", n |-> 0]
NaN == [kind |-> "nan", n |-> 0]
CostHeaders == {"", "0.05", "0", "not-a-number", "-1.5", "NaN", "Inf", "1e999", " 0.05"}

\* strconv.ParseFloat(s, 64): the value and whether err != nil.
ParseFloat(s) ==
    CASE s = "0.05" -> [val |-> Num(5), err |-> FALSE]
      [] s = "0" -> [val |-> Num(0), err |-> FALSE]
      [] s = "-1.5" -> [val |-> Num(-150), err |-> FALSE]
      [] s = "NaN" -> [val |-> NaN, err |-> FALSE]
      [] s = "Inf" -> [val |-> PosInf, err |-> FALSE]
      [] s = "1e999" -> [val |-> PosInf, err |-> TRUE]
      [] OTHER -> [val |-> Num(0), err |-> TRUE]

\* parsed >= 0 on float64: false for NaN.
GeqZero(x) == x.kind = "inf" \/ (x.kind = "num" /\ x.n >= 0)

PricingModels == {"per_request", "free", ""}
PricingAmounts == {1, 7}
RecordStatuses == {200, 404, 502}

reportedCostAnySign(p) == ~p.err

\* err == nil && parsed >= 0
reportedCost(p) == ~p.err /\ GeqZero(p.val)

\* recordTransaction: Cost and CostSource of the transaction it records.
recordTransaction(tool, statusCode, reportedCostHeader) ==
    LET p == ParseFloat(reportedCostHeader)
        flat == IF tool.pricingModel = "per_request" THEN Num(tool.pricingAmount) ELSE Num(0)
    IN  IF reportedCostHeader # "" /\ reportedCost(p)
        THEN [recorded |-> TRUE, status |-> statusCode, cost |-> p.val,
              costSource |-> "reported"]
        ELSE [recorded |-> TRUE, status |-> statusCode, cost |-> flat,
              costSource |-> "flat"]

CostInit ==
    /\ CoreUnused /\ SesUnused /\ RegUnused
    /\ \E h \in CostHeaders, m \in PricingModels, a \in PricingAmounts, st \in RecordStatuses :
          args = [tool |-> [pricingModel |-> m, pricingAmount |-> a], status |-> st,
                  header |-> IF st = 502 THEN "" ELSE h]
    /\ ret = [recorded |-> FALSE]

CostRecord ==
    /\ ~ret.recorded
    /\ ret' = recordTransaction(args.tool, args.status, args.header)
    /\ UNCHANGED args
    /\ CoreFrame /\ UNCHANGED <<sesVars, regVars>>

CostNext == CostRecord

SpecCost == CostInit /\ [][CostNext]_vars

\* ------------------------------------------------- the agent-auth middleware
\* A string is the sequence of its characters.
Str_Bearer == <<"B", "e", "a", "r", "e", "r">>
Str_bearer == <<"b", "e", "a", "r", "e", "r">>
Str_BEARER == <<"B", "E", "A", "R", "E", "R">>
Str_Basic == <<"B", "a", "s", "i", "c">>
Str_Bearers == <<"B", "e", "a", "r", "e", "r", "s">>
Schemes == {Str_Bearer, Str_bearer, Str_BEARER, Str_Basic, Str_Bearers, << >>}
Separators == {<< >>, <<" ">>, <<" ", " ">>}
\* k1 is the key of a registered agent.
Tokens == {<< >>, <<"k", "1">>, <<"k", "2">>, <<"k", "1", " ", "x">>}
AuthHeaders == {s \o sep \o t : s \in Schemes, sep \in Separators, t \in Tokens}

\* The position of the first sep in s, 0 when there is none.
Index(s, sep) ==
    IF \E i \in 1..Len(s) : s[i] = sep
    THEN CHOOSE i \in 1..Len(s) : s[i] = sep /\ \A j \in 1..(i - 1) : s[j] # sep
    ELSE 0

\* strings.SplitN(s, sep, 2)
SplitN2(s, sep) ==
    IF Index(s, sep) = 0 THEN <<s>>
    ELSE <<SubSeq(s, 1, Index(s, sep) - 1), SubSeq(s, Index(s, sep) + 1, Len(s))>>

ToLower(c) ==
    CASE c = "B" -> "b" [] c = "E" -> "e" [] c = "A" -> "a" [] c = "R" -> "r"
      [] OTHER -> c

EqualExact(a, b) == a = b

\* strings.EqualFold
EqualFold(a, b) ==
    Len(a) = Len(b) /\ \A i \in 1..Len(a) : ToLower(a[i]) = ToLower(b[i])

\* auth.extractBearerToken: "" unless the header is "<Bearer> <token>".
extractBearerToken(auth) ==
    LET parts == SplitN2(auth, " ")
    IN  IF auth = << >> THEN << >>
        ELSE IF Len(parts) # 2 \/ ~EqualFold(parts[1], Str_Bearer) THEN << >>
        ELSE parts[2]

\* HashKey: the SHA-256 of the token, taken to be collision-free.
HashKey(token) == <<"sha256", token>>

StoredKeys == {<<"k", "1">>}
\* GetByKeyHash: the agent with that api_key_hash; no row is an error as
\* well as a failed query.
GetByKeyHash(agents, hash, queryFails) ==
    IF ~queryFails /\ hash \in DOMAIN agents
    THEN [agent |-> agents[hash], err |-> FALSE]
    ELSE [agent |-> "", err |-> TRUE]

\* The handler of AgentAuthMiddleware.
AgentAuthMiddleware(auth, agents, queryFails) ==
    LET token == extractBearerToken(auth)
        got == GetByKeyHash(agents, HashKey(token), queryFails)
    IN  IF token = << >>
        THEN [done |-> TRUE, next |-> FALSE, status |-> 401, code |-> "unauthorized", agent |-> ""]
        ELSE IF got.err \/ got.agent = ""
        THEN [done |-> TRUE, next |-> FALSE, status |-> 401, code |-> "unauthorized", agent |-> ""]
        ELSE [done |-> TRUE, next |-> TRUE, status |-> 0, code |-> "", agent |-> got.agent]

AuthInit ==
    /\ CoreUnused /\ SesUnused /\ RegUnused
    /\ \E h \in AuthHeaders, S \in SUBSET StoredKeys, f \in BOOLEAN :
          args = [auth |-> h, agents |-> [x \in {HashKey(k) : k \in S} |-> "a1"],
                  queryFails |-> f]
    /\ ret = [done |-> FALSE]

AuthServe ==
    /\ ~ret.done
    /\ ret' = AgentAuthMiddleware(args.auth, args.agents, args.queryFails)
    /\ UNCHANGED args
    /\ CoreFrame /\ UNCHANGED <<sesVars, regVars>>

AuthNext == AuthServe

SpecAuth == AuthInit /\ [][AuthNext]_vars

\* ----------------------------------------------------------- user sessions
\* Time is in days.
sessionDuration == 7
SesMaxTime == 8
SessionTokens == {<<"t", "1">>, <<"t", "2">>}
SessionUser == "u1"
BearerSpellings == {Str_Bearer, Str_bearer}

hashToken(plaintext) == <<"sha256", plaintext>>

\* api.extractBearerToken, the one Logout calls: the header must start with
\* exactly "Bearer ".
apiExtractBearerToken(h) ==
    IF Len(h) > 7 /\ SubSeq(h, 1, 7) = Str_Bearer \o <<" ">>
    THEN SubSeq(h, 8, Len(h))
    ELSE << >>

\* Store.GetSessionUser: the user of the row with that token hash that has
\* not expired; no row is an error.
GetSessionUser(plaintext) ==
    \E s \in sessions : s.token_hash = hashToken(plaintext) /\ s.expires_at > sesClock

\* MemberAuthMiddleware lets the request with that Authorization header in.
MemberAuthMiddleware(h) ==
    extractBearerToken(h) # << >> /\ GetSessionUser(extractBearerToken(h))

NeverIssued == [issued |-> FALSE, created |-> 0, loggedOut |-> FALSE]

SesInit ==
    /\ CoreUnused /\ RegUnused
    /\ args = << >>
    /\ ret = [op |-> "none", token |-> << >>, status |-> 0]
    /\ sessions = {}
    /\ sesClock = 0
    /\ sesHist = [t \in SessionTokens |-> NeverIssued]

SesFrame == CoreFrame /\ UNCHANGED <<args, regVars>>

\* POST /api/v1/auth/login; t is the token rand.Read produces, a new one
\* every time.
Login(t, passwordOk) ==
    /\ ~sesHist[t].issued
    /\ IF passwordOk
       THEN /\ sessions' = sessions \cup
                  {[token_hash |-> hashToken(t), user_id |-> SessionUser,
                    created_at |-> sesClock,
                    expires_at |-> sesClock + sessionDuration]}
            /\ sesHist' = [sesHist EXCEPT ![t] =
                  [issued |-> TRUE, created |-> sesClock, loggedOut |-> FALSE]]
            /\ ret' = [op |-> "login", token |-> t, status |-> 200]
       ELSE /\ UNCHANGED <<sessions, sesHist>>
            /\ ret' = [op |-> "login", token |-> << >>, status |-> 401]
    /\ UNCHANGED sesClock
    /\ SesFrame

\* GET /api/v1/auth/me with the header "<spelling> <t>".
Me(t, spelling) ==
    /\ ret' = [op |-> "me", token |-> t,
               status |-> IF MemberAuthMiddleware(spelling \o <<" ">> \o t)
                          THEN 200 ELSE 401]
    /\ UNCHANGED sesVars
    /\ SesFrame

\* Store.DeleteSession
DeleteSession(plaintext) ==
    {s \in sessions : s.token_hash # hashToken(plaintext)}

\* POST /api/v1/auth/logout with the header "<spelling> <t>", behind
\* MemberAuthMiddleware; the error of DeleteSession is dropped.
Logout(t, spelling, deleteFails) ==
    LET h == spelling \o <<" ">> \o t
        token == apiExtractBearerToken(h)
    IN  /\ IF ~MemberAuthMiddleware(h)
           THEN /\ ret' = [op |-> "logout", token |-> t, status |-> 401]
                /\ UNCHANGED <<sessions, sesHist>>
           ELSE /\ sessions' = IF token = << >> \/ deleteFails
                               THEN sessions
                               ELSE DeleteSession(token)
                /\ sesHist' = [sesHist EXCEPT ![t].loggedOut = TRUE]
                /\ ret' = [op |-> "logout", token |-> t, status |-> 204]
        /\ UNCHANGED sesClock
        /\ SesFrame

SesTick ==
    /\ sesClock < SesMaxTime
    /\ sesClock' = sesClock + 1
    /\ UNCHANGED <<sessions, sesHist, ret>>
    /\ SesFrame

SesLoginStep == \E t \in SessionTokens, ok \in BOOLEAN : Login(t, ok)
SesMeStep == \E t \in SessionTokens, sp \in BearerSpellings : Me(t, sp)
SesLogoutStep ==
    \E t \in SessionTokens, sp \in BearerSpellings, f \in BOOLEAN : Logout(t, sp, f)

SesNext == SesLoginStep \/ SesMeStep \/ SesLogoutStep \/ SesTick

SpecSession == SesInit /\ [][SesNext]_vars

\* ------------------------------------------------------- endpoint templates
\* A string is the sequence of its characters; Origin stands for the
\* characters "https://h/" taken together.
MaxTplLen == 5
Origin == "https://h/"
\* The characters that templateVarPattern accepts in a name; names here are
\* shorter than the 64 characters the pattern allows.
NameChars == {"a", "b"}
TplChars == {"{", "}"} \cup NameChars
Templates == UNION {[1..n -> TplChars] : n \in 0..MaxTplLen}
VarNames == {<<"a">>, <<"b">>}
VarValues == {<< >>, <<"b">>, <<"{", "b", "}">>}
VariableMaps == UNION {[D -> VarValues] : D \in SUBSET VarNames}

\* The length of the match of templateVarPattern that starts at s[i], 0 when
\* there is none: "{", one or more name characters, "}".
matchAt(s, i) ==
    IF s[i] = "{" /\ \E n \in 1..(Len(s) - i - 1) :
                        /\ \A j \in (i + 1)..(i + n) : s[j] \in NameChars
                        /\ s[i + n + 1] = "}"
    THEN 2 + CHOOSE n \in 1..(Len(s) - i - 1) :
                 /\ \A j \in (i + 1)..(i + n) : s[j] \in NameChars
                 /\ s[i + n + 1] = "}"
    ELSE 0

\* The names of the matches from s[i] on, leftmost first, none overlapping.
RECURSIVE FindAllStringSubmatch(_, _)
FindAllStringSubmatch(s, i) ==
    IF i > Len(s) THEN << >>
    ELSE IF matchAt(s, i) > 0
    THEN <<SubSeq(s, i + 1, i + matchAt(s, i) - 2)>>
             \o FindAllStringSubmatch(s, i + matchAt(s, i))
    ELSE FindAllStringSubmatch(s, i + 1)

\* s from s[i] on with every match replaced by repl of its name; what a
\* replacement puts in is not scanned again.
RECURSIVE ReplaceAllStringFunc(_, _, _)
ReplaceAllStringFunc(s, i, variables) ==
    IF i > Len(s) THEN << >>
    ELSE IF matchAt(s, i) > 0
    THEN LET varName == SubSeq(s, i + 1, i + matchAt(s, i) - 2)
         IN  (IF varName \in DOMAIN variables
              THEN variables[varName]
              ELSE SubSeq(s, i, i + matchAt(s, i) - 1))
                 \o ReplaceAllStringFunc(s, i + matchAt(s, i), variables)
    ELSE <<s[i]>> \o ReplaceAllStringFunc(s, i + 1, variables)

\* The names the template's placeholders carry.
ExtractTemplateVars(tmpl) ==
    {FindAllStringSubmatch(tmpl, 1)[k] :
        k \in 1..Len(FindAllStringSubmatch(tmpl, 1))}

ResolveTemplateLenient(tmpl, variables) ==
    [ok |-> TRUE, result |-> ReplaceAllStringFunc(tmpl, 1, variables),
     missingVar |-> << >>]

\* ResolveTemplate: missingVar is the name the callback saw last without a
\* value.
ResolveTemplate(tmpl, variables) ==
    LET names == FindAllStringSubmatch(tmpl, 1)
        missing == {k \in 1..Len(names) : names[k] \notin DOMAIN variables}
    IN  IF missing # {}
        THEN [ok |-> FALSE, result |-> << >>,
              missingVar |-> names[CHOOSE k \in missing : \A m \in missing : m <= k]]
        ELSE [ok |-> TRUE, result |-> ReplaceAllStringFunc(tmpl, 1, variables),
              missingVar |-> << >>]

TplInit ==
    /\ CoreUnused /\ SesUnused /\ RegUnused
    /\ \E t \in Templates, v \in VariableMaps : args = [tmpl |-> t, variables |-> v]
    /\ ret = [done |-> FALSE]

TplResolve ==
    /\ ~ret.done
    /\ ret' = [done |-> TRUE, out |-> ResolveTemplate(args.tmpl, args.variables)]
    /\ UNCHANGED args
    /\ CoreFrame /\ UNCHANGED <<sesVars, regVars>>

TplNext == TplResolve

SpecTemplate == TplInit /\ [][TplNext]_vars

\* ------------------------------------------------------- the tool registry
ToolIDs == {"id1"}
Callers == {"c1", "c2"}
validModes == {"service", "api"}
InputModes == validModes \cup {"", "batch"}
RegEndpoints ==
    {<<Origin>>, <<"a">>, << >>, <<Origin, "{", "a", "}">>, <<"{", "a", "}">>}
RegVariables == UNION {[D -> {<<Origin>>, <<"b">>}] : D \in SUBSET {<<"a">>}}

\* A field of UpdateToolInput: a nil pointer, or a pointer to a value.
Nil == [set |-> FALSE]
Ptr(v) == [set |-> TRUE, val |-> v]
Opt(S) == {Nil} \cup {Ptr(v) : v \in S}

\* CreateToolInput and UpdateToolInput; name, description and auth type are
\* taken to be valid.
CreateToolInputs ==
    [Mode : InputModes, Endpoint : RegEndpoints, Variables : RegVariables]
UpdateToolInputs ==
    [Mode : Opt(InputModes), Endpoint : Opt(RegEndpoints), Variables : Opt(RegVariables)]

\* validateEndpoint: url.Parse gives a scheme and a host. Of the strings
\* modelled those are the ones where "https://h/" comes after letters only,
\* which then belong to the scheme.
validateEndpoint(endpoint) ==
    IF \E i \in 1..Len(endpoint) :
          endpoint[i] = Origin /\ \A j \in 1..(i - 1) : endpoint[j] \in NameChars
    THEN "" ELSE "ErrEndpointInvalid"

validateAPIEndpoint(endpoint, variables) ==
    IF endpoint = << >> THEN "ErrEndpointInvalid"
    ELSE IF ~ResolveTemplate(endpoint, variables).ok THEN "ErrVariablesMissing"
    ELSE validateEndpoint(ResolveTemplate(endpoint, variables).result)

validateCreate(input) ==
    IF input.Mode # "" /\ input.Mode \notin validModes THEN "ErrModeInvalid"
    ELSE IF input.Mode = "api"
    THEN validateAPIEndpoint(input.Endpoint, input.Variables)
    ELSE validateEndpoint(input.Endpoint)

\* validateUpdate: the endpoint is looked at only when no mode comes with it.
validateUpdate(input) ==
    IF input.Mode.set /\ input.Mode.val \notin validModes THEN "ErrModeInvalid"
    ELSE IF input.Endpoint.set /\ ~input.Mode.set
    THEN validateEndpoint(input.Endpoint.val)
    ELSE ""

\* The cross-field check of Service.Update against the row GetByID returned.
crossFieldCheck(existing, input) ==
    LET mode == IF input.Mode.set THEN input.Mode.val ELSE existing.mode
        endpoint == IF input.Endpoint.set THEN input.Endpoint.val ELSE existing.endpoint
        variables == IF input.Variables.set THEN input.Variables.val ELSE existing.variables
    IN  IF (input.Mode.set \/ input.Endpoint.set \/ input.Variables.set) /\ mode = "api"
        THEN validateAPIEndpoint(endpoint, variables)
        ELSE ""

Idle == [pc |-> "idle"]

\* One input changes the endpoint alone and the other the variables alone.
EndpointOnly(input) == input.Endpoint.set /\ ~input.Mode.set /\ ~input.Variables.set
VariablesOnly(input) == input.Variables.set /\ ~input.Mode.set /\ ~input.Endpoint.set
SplitPair(i1, i2) ==
    \/ EndpointOnly(i1) /\ VariablesOnly(i2)
    \/ VariablesOnly(i1) /\ EndpointOnly(i2)

RegInit ==
    /\ CoreUnused /\ FnUnused /\ SesUnused
    /\ tools = << >>
    /\ calls = [inflight |-> [c \in Callers |-> Idle], overlapped |-> FALSE,
                split |-> FALSE]

RegFrame == CoreFrame /\ UNCHANGED <<fnVars, sesVars>>

\* Service.Create: defaults, validateCreate, Store.Create.
Create(id, input) ==
    LET in == [input EXCEPT !.Mode = IF input.Mode = "" THEN "service" ELSE input.Mode]
    IN  /\ id \notin DOMAIN tools
        /\ validateCreate(in) = ""
        /\ tools' = tools @@ (id :> [mode |-> in.Mode, endpoint |-> in.Endpoint,
                                     variables |-> in.Variables])
        /\ UNCHANGED calls
        /\ RegFrame

\* Service.Update up to its return from GetByID and the checks on what it
\* read; the call then goes on to Store.Update.
UpdateValidate(c, id, input) ==
    /\ calls.inflight[c] = Idle
    /\ id \in DOMAIN tools
    /\ validateUpdate(input) = ""
    /\ crossFieldCheck(tools[id], input) = ""
    /\ calls' = [inflight |-> [calls.inflight EXCEPT ![c] =
                                  [pc |-> "store", id |-> id, input |-> input]],
                 overlapped |-> calls.overlapped
                                  \/ \E d \in Callers \ {c} : calls.inflight[d] # Idle,
                 split |-> calls.split
                             \/ \E d \in Callers \ {c} :
                                   /\ calls.inflight[d] # Idle
                                   /\ calls.inflight[d].id = id
                                   /\ SplitPair(calls.inflight[d].input, input)]
    /\ UNCHANGED tools
    /\ RegFrame

\* Store.Update: one UPDATE statement that sets the fields given.
UpdateStore(c) ==
    LET id == calls.inflight[c].id
        input == calls.inflight[c].input
    IN  /\ calls.inflight[c] # Idle
        /\ tools' = [tools EXCEPT ![id] =
              [mode |-> IF input.Mode.set THEN input.Mode.val ELSE tools[id].mode,
               endpoint |-> IF input.Endpoint.set THEN input.Endpoint.val
                            ELSE tools[id].endpoint,
               variables |-> IF input.Variables.set THEN input.Variables.val
                             ELSE tools[id].variables]]
        /\ calls' = [calls EXCEPT !.inflight[c] = Idle]
        /\ RegFrame

RegCreateStep == \E id \in ToolIDs, input \in CreateToolInputs : Create(id, input)
RegValidateStep ==
    \E c \in Callers, id \in ToolIDs, input \in UpdateToolInputs :
        UpdateValidate(c, id, input)
RegStoreStep == \E c \in Callers : UpdateStore(c)

RegNext == RegCreateStep \/ RegValidateStep \/ RegStoreStep

SpecRegistry == RegInit /\ [][RegNext]_vars

\* --------------------------------------------------------- list cursors
\* A string is the sequence of its bytes. A time.Time is the fields of its
\* wall clock in its zone and the offset of that zone in seconds east of
\* UTC; month, day, hour and minute stay 01-02T03:04 throughout.
CursorYears == {1, 2024, 9999, 10000}
CursorSecs == {5, 59}
CursorNanos == {0, 1, 120000000, 123456789, 999999999}
\* 21208 s is +05:53:28, the local mean time of Asia/Kolkata.
CursorOffsets == {0, 3600, 0 - 19800, 21208}
\* "", "a", "a-b", "a|b"
CursorIDs == {<< >>, <<97>>, <<97, 45, 98>>, <<97, 124, 98>>}
Times == [year : CursorYears, sec : CursorSecs, nsec : CursorNanos, offset : CursorOffsets]

Sep == 124
\* "-01-02T03:04:"
DateClock == <<45, 48, 49, 45, 48, 50, 84, 48, 51, 58, 48, 52, 58>>

isDigit(c) == c >= 48 /\ c <= 57

\* n in decimal, padded with zeros to width w.
appendInt(n, w) == [i \in 1..w |-> 48 + ((n \div (10 ^ (w - i))) % 10)]

RECURSIVE atoi(_)
atoi(s) == IF s = << >> THEN 0
           ELSE 10 * atoi(SubSeq(s, 1, Len(s) - 1)) + (s[Len(s)] - 48)

\* The fraction of the layout ".999999999": nine digits without their
\* trailing zeros, nothing at all for zero.
formatNano(nsec) ==
    LET d == appendInt(nsec, 9)
        n == CHOOSE k \in 0..9 : /\ k > 0 => d[k] # 48
                                 /\ \A j \in (k + 1)..9 : d[j] = 48
    IN  IF n = 0 THEN << >> ELSE <<46>> \o SubSeq(d, 1, n)

\* The zone of the layout "Z07:00": Z for offset 0, else sign, hours and
\* minutes; the seconds of the offset are cut off.
formatZone(offset) ==
    LET abs == IF offset < 0 THEN 0 - offset ELSE offset
        zone == abs \div 60
    IN  IF offset = 0 THEN <<90>>
        ELSE <<IF offset < 0 THEN 45 ELSE 43>> \o appendInt(zone \div 60, 2)
                 \o <<58>> \o appendInt(zone % 60, 2)

\* Time.Format(time.RFC3339Nano)
Format(t) ==
    appendInt(t.year, IF t.year > 9999 THEN 5 ELSE 4) \o DateClock
        \o appendInt(t.sec, 2) \o formatNano(t.nsec) \o formatZone(t.offset)

\* The base64 alphabet of StdEncoding.
encodeStd(v) ==
    IF v < 26 THEN 65 + v ELSE IF v < 52 THEN 71 + v
    ELSE IF v < 62 THEN v - 4 ELSE IF v = 62 THEN 43 ELSE 47

decodeMap(c) ==
    IF c >= 65 /\ c <= 90 THEN c - 65 ELSE IF c >= 97 /\ c <= 122 THEN c - 71
    ELSE IF isDigit(c) THEN c + 4 ELSE IF c = 43 THEN 62
    ELSE IF c = 47 THEN 63 ELSE 0 - 1

\* base64.StdEncoding.EncodeToString
EncodeToString(src) ==
    LET byte(k) == IF k <= Len(src) THEN src[k] ELSE 0
        group(g) == byte(3 * g + 1) * 65536 + byte(3 * g + 2) * 256 + byte(3 * g + 3)
    IN  [i \in 1..(4 * ((Len(src) + 2) \div 3)) |->
            LET g == (i - 1) \div 4
                p == (i - 1) % 4
            IN  IF 3 * g + p > Len(src) THEN 61
                ELSE encodeStd((group(g) \div (64 ^ (3 - p))) % 64)]

\* base64.StdEncoding.DecodeString
DecodeString(s) ==
    LET pad == Cardinality({i \in 1..Len(s) : s[i] = 61})
        n == 3 * (Len(s) \div 4) - pad
        val(k) == IF s[k] = 61 THEN 0 ELSE decodeMap(s[k])
        group(g) == val(4 * g + 1) * 262144 + val(4 * g + 2) * 4096
                        + val(4 * g + 3) * 64 + val(4 * g + 4)
        wellFormed ==
            /\ Len(s) % 4 = 0
            /\ pad <= 2
            /\ \A i \in 1..Len(s) :
                  IF i > Len(s) - pad THEN s[i] = 61 ELSE decodeMap(s[i]) >= 0
    IN  IF ~wellFormed THEN [err |-> TRUE, data |-> << >>]
        ELSE [err |-> FALSE,
              data |-> [j \in 1..n |->
                          (group((j - 1) \div 3) \div (256 ^ (2 - ((j - 1) % 3)))) % 256]]

\* encodeCursor
encodeCursor(createdAt, id) == EncodeToString(Format(createdAt) \o <<Sep>> \o id)

parseNanosecondsUnscaled(digits) == atoi(digits)

\* The digits after the point, as nanoseconds.
parseNanoseconds(digits) == atoi(digits) * (10 ^ (9 - Len(digits)))

ParseError == [err |-> TRUE]

\* time.Parse(time.RFC3339Nano, v): a year of four digits, the date and the
\* clock, an optional fraction, and Z or a signed hh:mm, with nothing after.
Parse(v) ==
    LET afterSec == SubSeq(v, 20, Len(v))
        nd == IF Len(afterSec) >= 2 /\ afterSec[1] = 46 /\ isDigit(afterSec[2])
              THEN CHOOSE k \in 1..(Len(afterSec) - 1) :
                      /\ \A j \in 2..(k + 1) : isDigit(afterSec[j])
                      /\ (k + 2 <= Len(afterSec) => ~isDigit(afterSec[k + 2]))
              ELSE 0
        zone == IF nd = 0 THEN afterSec ELSE SubSeq(afterSec, nd + 2, Len(afterSec))
        zoneOk ==
            \/ zone = <<90>>
            \/ /\ Len(zone) = 6
               /\ zone[1] \in {43, 45}
               /\ isDigit(zone[2]) /\ isDigit(zone[3]) /\ zone[4] = 58
               /\ isDigit(zone[5]) /\ isDigit(zone[6])
    IN  IF \/ Len(v) < 20
           \/ \E i \in 1..4 : ~isDigit(v[i])
           \/ SubSeq(v, 5, 17) # DateClock
           \/ ~isDigit(v[18]) \/ ~isDigit(v[19])
           \/ nd > 9
           \/ ~zoneOk
        THEN ParseError
        ELSE [err |-> FALSE,
              t |-> [year |-> atoi(SubSeq(v, 1, 4)),
                     sec |-> atoi(SubSeq(v, 18, 19)),
                     nsec |-> IF nd = 0 THEN 0
                              ELSE parseNanoseconds(SubSeq(afterSec, 2, nd + 1)),
                     offset |-> IF zone = <<90>> THEN 0
                                ELSE (IF zone[1] = 45 THEN 0 - 1 ELSE 1)
                                       * (atoi(SubSeq(zone, 2, 3)) * 3600
                                            + atoi(SubSeq(zone, 5, 6)) * 60)]]

\* decodeCursor
decodeCursor(cursor) ==
    LET dec == DecodeString(cursor)
        parts == SplitN2(dec.data, Sep)
    IN  IF dec.err \/ Len(parts) # 2 \/ Parse(parts[1]).err
        THEN [err |-> TRUE]
        ELSE [err |-> FALSE, t |-> Parse(parts[1]).t, id |-> parts[2]]

CurInit ==
    /\ CoreUnused /\ SesUnused /\ RegUnused
    /\ \E t \in Times, id \in CursorIDs : args = [ts |-> t, id |-> id]
    /\ ret = [done |-> FALSE]

CurRoundTrip ==
    /\ ~ret.done
    /\ ret' = [done |-> TRUE, cursor |-> encodeCursor(args.ts, args.id),
               out |-> decodeCursor(encodeCursor(args.ts, args.id))]
    /\ UNCHANGED args
    /\ CoreFrame /\ UNCHANGED <<sesVars, regVars>>

CurNext == CurRoundTrip

SpecCursor == CurInit /\ [][CurNext]_vars

\* ------------------------------------------- per-agent rate-limit middleware
MwMaxTime == 2          \* the clock stops advancing here

MwReqs == {"m1", "m2"}

MwIdle ==
    [pc |-> "idle", agent |-> "",
     rl |-> [set |-> FALSE, limit |-> 0, remaining |-> 0, resetAt |-> 0],
     status |-> 0, code |-> ""]

\* The X-RateLimit-Limit, -Remaining and -Reset headers set from what Status
\* returned.
pxRateHeaders(st) ==
    [set |-> TRUE, limit |-> st.limit, remaining |-> st.remaining, resetAt |-> st.resetAt]

MwInit ==
    /\ buckets = << >>
    /\ now = 0
    /\ HistUnused /\ TrlUnused /\ ColUnused /\ PxUnused /\ BudUnused /\ FltUnused /\ HdrUnused
    /\ FnUnused /\ SesUnused /\ RegUnused /\ LrlUnused /\ TmUnused
    /\ mwReq = [q \in MwReqs |-> MwIdle]

MwFrame ==
    UNCHANGED <<limHist, trlVars, colVars, pxVars, budVars, fltVars, hdrVars, fnVars,
                sesVars, regVars, lrlVars, tmVars>>

\* A request enters the middleware: with no agent in its context it is
\* passed to the next handler without any rate limiting.
MwEnter(q, agentID) ==
    /\ mwReq[q].pc \in {"idle", "next", "done"}
    /\ mwReq' = [mwReq EXCEPT ![q] =
          [MwIdle EXCEPT !.agent = agentID,
                         !.pc = IF agentID = "" THEN "next" ELSE "status"]]
    /\ UNCHANGED limVars /\ MwFrame

\* limiter.Status, and the three headers set from it.
MwStatus(q) ==
    /\ mwReq[q].pc = "status"
    /\ LET st == Status(buckets, mwReq[q].agent, RateLimitOf(mwReq[q].agent), now)
       IN  /\ buckets' = Put(buckets, mwReq[q].agent, st.bucket)
           /\ mwReq' = [mwReq EXCEPT ![q].pc = "allow", ![q].rl = pxRateHeaders(st)]
    /\ UNCHANGED now /\ MwFrame

\* limiter.Allow: 429 rate_limited when it denies, the next handler when it
\* admits.
MwAllow(q) ==
    /\ mwReq[q].pc = "allow"
    /\ LET res == Allow(buckets, mwReq[q].agent, RateLimitOf(mwReq[q].agent), now)
       IN  /\ buckets' = Put(buckets, mwReq[q].agent, res.bucket)
           /\ mwReq' = [mwReq EXCEPT ![q] =
                 IF res.ok
                 THEN [@ EXCEPT !.pc = "next"]
                 ELSE [@ EXCEPT !.pc = "done", !.status = 429, !.code = "rate_limited"]]
    /\ UNCHANGED now /\ MwFrame

MwAdvance(d) ==
    /\ now + d <= MwMaxTime
    /\ now' = now + d
    /\ UNCHANGED <<buckets, mwReq>> /\ MwFrame

MwEnterStep == \E q \in MwReqs, a \in Agents \cup {""} : MwEnter(q, a)
MwStatusStep == \E q \in MwReqs : MwStatus(q)
MwAllowStep == \E q \in MwReqs : MwAllow(q)
MwAdvanceStep == \E d \in 1..MwMaxTime : MwAdvance(d)

MwNext == MwEnterStep \/ MwStatusStep \/ MwAllowStep \/ MwAdvanceStep

SpecMiddleware == MwInit /\ [][MwNext]_vars

\* ------------------------------------------------------ login rate limiter
LoginLimit == 2         \* loginRateLimiter.limit
LoginWindow == 2        \* loginRateLimiter.window, in ticks
TicksPerSecond == 2     \* ticks in a second
LrlMaxTime == 2         \* the clock stops advancing here
MaxAttempts == 4        \* login requests served in a run

LoginReqs == {"l1", "l2"}
\* r.RemoteAddr is host:port; both connections come from one client.
RemoteAddrs == {"10.0.0.1:1001", "10.0.0.1:1002"}
Forwarded == {"", "10.9.9.9"}
HostOf(remoteAddr) == "10.0.0.1"

\* The login route: the limiter's key is X-Forwarded-For when the request
\* has one, r.RemoteAddr otherwise.
loginKey(remoteAddr, fwd) == IF fwd # "" THEN fwd ELSE remoteAddr

CeilDiv(a, b) == (a + b - 1) \div b

\* int(math.Ceil(remaining.Seconds())), 1 at least.
retryAfterOf(remaining) ==
    IF CeilDiv(remaining, TicksPerSecond) < 1 THEN 1 ELSE CeilDiv(remaining, TicksPerSecond)

\* allow under entry.mu, with the now read before LoadOrStore: the entry
\* after the call and (allowed, retryAfter).
allowEntry(e, t) ==
    LET w == IF t - e.windowStart >= LoginWindow
             THEN [count |-> 0, windowStart |-> t]
             ELSE e
    IN  IF w.count >= LoginLimit
        THEN [entry |-> w, ok |-> FALSE,
              retryAfter |-> retryAfterOf(LoginWindow - (t - w.windowStart))]
        ELSE [entry |-> [w EXCEPT !.count = w.count + 1], ok |-> TRUE, retryAfter |-> 0]

LrlIdle == [pc |-> "idle", host |-> "", key |-> "", entry |-> 0, now |-> 0]

LrlInit ==
    /\ LimUnused /\ HistUnused /\ TrlUnused /\ ColUnused /\ PxUnused /\ BudUnused
    /\ FltUnused /\ HdrUnused /\ FnUnused /\ SesUnused /\ RegUnused /\ MwUnused
    /\ TmUnused
    /\ lrlEntries = << >>
    /\ lrlHeap = << >>
    /\ lrlClock = 0
    /\ lrlReq = [q \in LoginReqs |-> LrlIdle]
    /\ lrlCleaner = [pc |-> "idle", now |-> 0, seen |-> {}, key |-> ""]
    /\ lrlHist = << >>

LrlFrame ==
    UNCHANGED <<limVars, limHist, trlVars, colVars, pxVars, budVars, fltVars, hdrVars,
                fnVars, sesVars, regVars, mwVars, tmVars>>

\* The login route and the first lines of allow: the key of the request,
\* now := time.Now(), and entries.LoadOrStore(ip, &loginEntry{windowStart: now}).
LrlLoad(q, remoteAddr, fwd) ==
    /\ lrlReq[q].pc = "idle"
    /\ Len(lrlHist) + Cardinality({r \in LoginReqs : lrlReq[r].pc # "idle"}) < MaxAttempts
    /\ LET key == loginKey(remoteAddr, fwd)
           stored == key \in DOMAIN lrlEntries
           id == IF stored THEN lrlEntries[key] ELSE Cardinality(DOMAIN lrlHeap) + 1
       IN  /\ lrlEntries' = IF stored THEN lrlEntries ELSE (key :> id) @@ lrlEntries
           /\ lrlHeap' = IF stored THEN lrlHeap
                         ELSE (id :> [count |-> 0, windowStart |-> lrlClock]) @@ lrlHeap
           /\ lrlReq' = [lrlReq EXCEPT ![q] =
                 [pc |-> "locked", host |-> HostOf(remoteAddr), key |-> key,
                  entry |-> id, now |-> lrlClock]]
    /\ UNCHANGED <<lrlClock, lrlCleaner, lrlHist>> /\ LrlFrame

\* The rest of allow under entry.mu, and what the route answers: 429 with
\* Retry-After, or the login handler.
LrlAllow(q) ==
    /\ lrlReq[q].pc = "locked"
    /\ LET r == lrlReq[q]
           res == allowEntry(lrlHeap[r.entry], r.now)
       IN  /\ lrlHeap' = [lrlHeap EXCEPT ![r.entry] = res.entry]
           /\ lrlHist' = Append(lrlHist,
                 [host |-> r.host, key |-> r.key, at |-> r.now, ok |-> res.ok,
                  status |-> IF res.ok THEN 0 ELSE 429,
                  retryAfter |-> res.retryAfter])
    /\ lrlReq' = [lrlReq EXCEPT ![q] = LrlIdle]
    /\ UNCHANGED <<lrlEntries, lrlClock, lrlCleaner>> /\ LrlFrame

\* cleanup: now := time.Now() and the Range begins.
LrlCleanupStart ==
    /\ lrlCleaner.pc = "idle"
    /\ lrlCleaner' = [pc |-> "range", now |-> lrlClock, seen |-> {}, key |-> ""]
    /\ UNCHANGED <<lrlEntries, lrlHeap, lrlClock, lrlReq, lrlHist>> /\ LrlFrame

\* cleanup, one entry of the Range: expired is read under entry.mu, and the
\* mutex is released.
LrlCleanupCheck(key) ==
    /\ lrlCleaner.pc = "range"
    /\ key \in DOMAIN lrlEntries /\ key \notin lrlCleaner.seen
    /\ LET expired == lrlCleaner.now - lrlHeap[lrlEntries[key]].windowStart >= LoginWindow
       IN  lrlCleaner' = [lrlCleaner EXCEPT !.seen = @ \cup {key},
                                            !.pc = IF expired THEN "delete" ELSE "range",
                                            !.key = IF expired THEN key ELSE ""]
    /\ UNCHANGED <<lrlEntries, lrlHeap, lrlClock, lrlReq, lrlHist>> /\ LrlFrame

\* cleanup: l.entries.Delete(key) removes whatever the key maps to.
LrlCleanupDelete ==
    /\ lrlCleaner.pc = "delete"
    /\ lrlEntries' = [k \in DOMAIN lrlEntries \ {lrlCleaner.key} |-> lrlEntries[k]]
    /\ lrlCleaner' = [lrlCleaner EXCEPT !.pc = "range", !.key = ""]
    /\ UNCHANGED <<lrlHeap, lrlClock, lrlReq, lrlHist>> /\ LrlFrame

\* cleanup: the Range is over.
LrlCleanupEnd ==
    /\ lrlCleaner.pc = "range"
    /\ lrlCleaner' = [pc |-> "idle", now |-> 0, seen |-> {}, key |-> ""]
    /\ UNCHANGED <<lrlEntries, lrlHeap, lrlClock, lrlReq, lrlHist>> /\ LrlFrame

LrlAdvance(d) ==
    /\ lrlClock + d <= LrlMaxTime
    /\ lrlClock' = lrlClock + d
    /\ UNCHANGED <<lrlEntries, lrlHeap, lrlReq, lrlCleaner, lrlHist>> /\ LrlFrame

LrlLoadStep == \E q \in LoginReqs, a \in RemoteAddrs, f \in Forwarded : LrlLoad(q, a, f)
LrlAllowStep == \E q \in LoginReqs : LrlAllow(q)
LrlCleanupCheckStep == \E k \in DOMAIN lrlEntries : LrlCleanupCheck(k)
LrlAdvanceStep == \E d \in 1..LrlMaxTime : LrlAdvance(d)

LrlNext ==
    \/ LrlLoadStep \/ LrlAllowStep \/ LrlAdvanceStep
    \/ LrlCleanupStart \/ LrlCleanupCheckStep \/ LrlCleanupDelete \/ LrlCleanupEnd

SpecLogin == LrlInit /\ [][LrlNext]_vars

\* ------------------------------------------------------------- team admins
MaxTeams == 2           \* longest teams list of a user

UserIDs == {"u1", "u2"}
Team == "t"
TmCallers == {"h1", "h2"}
Memberships == {[team |-> Team, role |-> "admin"], [team |-> Team, role |-> "member"]}
TeamLists == UNION {[1..n -> Memberships] : n \in 0..MaxTeams}
TeamInputs == {[set |-> FALSE]} \cup {[set |-> TRUE, v |-> l] : l \in TeamLists}

\* The entries of a teams list that make its user an admin of the team.
AdminEntries(teams, team) ==
    Cardinality({i \in DOMAIN teams : teams[i].team = team /\ teams[i].role = "admin"})

\* userStore.List: the teams lists of the users that exist.
ListUsers(users) == [u \in {v \in UserIDs : users[v].exists} |-> users[u].teams]

RECURSIVE SumOver(_, _, _)
SumOver(list, ids, team) ==
    IF ids = {} THEN 0
    ELSE LET u == CHOOSE v \in ids : TRUE
         IN  AdminEntries(list[u], team) + SumOver(list, ids \ {u}, team)

\* adminCount of RemoveTeamMember: the admin entries of the team over all
\* the users listed.
adminCountAll(allUsers, team) == SumOver(allUsers, DOMAIN allUsers, team)

\* adminCount of checkLastTeamAdmin: the same, skipping the user modified.
adminCountOthers(allUsers, userID, team) ==
    SumOver(allUsers, DOMAIN allUsers \ {userID}, team)

\* checkLastTeamAdmin: the user is admin of the team now and not in
\* proposed.
affected(current, proposed, team) ==
    AdminEntries(current, team) > 0 /\ AdminEntries(proposed, team) = 0

\* checkLastTeamAdmin: the team would be left without an admin.
checkLastTeamAdmin(allUsers, userID, current, proposed) ==
    affected(current, proposed, Team) /\ adminCountOthers(allUsers, userID, Team) = 0

RECURSIVE firstRole(_, _)
\* removingRole of RemoveTeamMember: the role of the first entry of the team.
firstRole(teams, team) ==
    IF Len(teams) = 0 THEN ""
    ELSE IF Head(teams).team = team THEN Head(teams).role
    ELSE firstRole(Tail(teams), team)

\* newTeams of RemoveTeamMember: the entries of other teams.
RECURSIVE withoutTeam(_, _)
withoutTeam(teams, team) ==
    IF Len(teams) = 0 THEN << >>
    ELSE IF Head(teams).team = team THEN withoutTeam(Tail(teams), team)
    ELSE <<Head(teams)>> \o withoutTeam(Tail(teams), team)

TmIdle ==
    [pc |-> "idle", op |-> "", id |-> "", existing |-> << >>, proposed |-> << >>,
     check |-> FALSE, raced |-> FALSE]

\* The users that are admins of the team.
Admins(users) ==
    {u \in UserIDs : users[u].exists /\ AdminEntries(users[u].teams, Team) > 0}

TmInit ==
    /\ LimUnused /\ HistUnused /\ TrlUnused /\ ColUnused /\ PxUnused /\ BudUnused
    /\ FltUnused /\ HdrUnused /\ FnUnused /\ SesUnused /\ RegUnused /\ MwUnused
    /\ LrlUnused
    /\ tmUsers = [u \in UserIDs |->
          [exists |-> TRUE, teams |-> <<[team |-> Team, role |-> "admin"]>>]]
    /\ tmCalls = [c \in TmCallers |-> TmIdle]

TmFrame ==
    UNCHANGED <<limVars, limHist, trlVars, colVars, pxVars, budVars, fltVars, hdrVars,
                fnVars, sesVars, regVars, mwVars, lrlVars>>

\* RemoveTeamMember up to the membership test: GetByID of the target (404
\* when there is none, or when it is not in the team).
RemoveGet(c, id) ==
    /\ tmCalls[c].pc = "idle"
    /\ LET found == tmUsers[id].exists /\ firstRole(tmUsers[id].teams, Team) # ""
       IN  tmCalls' = [tmCalls EXCEPT ![c] =
              IF found
              THEN [TmIdle EXCEPT !.pc = "check", !.op = "remove", !.id = id,
                                  !.existing = tmUsers[id].teams,
                                  !.proposed = withoutTeam(tmUsers[id].teams, Team),
                                  !.check = firstRole(tmUsers[id].teams, Team) = "admin"]
              ELSE TmIdle]
    /\ UNCHANGED tmUsers /\ TmFrame

\* UpdateUser up to the constraint check: GetByID when teams are being
\* changed (404 when there is no such user).
UpdateGet(c, id, input) ==
    /\ tmCalls[c].pc = "idle"
    /\ tmCalls' = [tmCalls EXCEPT ![c] =
          IF ~input.set
          THEN [TmIdle EXCEPT !.pc = "write", !.op = "update", !.id = id]
          ELSE IF tmUsers[id].exists
          THEN [TmIdle EXCEPT !.pc = "check", !.op = "updateTeams", !.id = id,
                              !.existing = tmUsers[id].teams, !.proposed = input.v,
                              !.check = TRUE]
          ELSE TmIdle]
    /\ UNCHANGED tmUsers /\ TmFrame

\* DeleteUser up to the constraint check: GetByID (404 when there is no such
\* user); deleting is removing every membership.
DeleteGet(c, id) ==
    /\ tmCalls[c].pc = "idle"
    /\ tmCalls' = [tmCalls EXCEPT ![c] =
          IF tmUsers[id].exists
          THEN [TmIdle EXCEPT !.pc = "check", !.op = "delete", !.id = id,
                              !.existing = tmUsers[id].teams, !.check = TRUE]
          ELSE TmIdle]
    /\ UNCHANGED tmUsers /\ TmFrame

\* The last-admin check of the three handlers on what userStore.List
\* returns now: 409 constraint_error, or on to the write.
TmCheck(c) ==
    /\ tmCalls[c].pc = "check"
    /\ LET r == tmCalls[c]
           allUsers == ListUsers(tmUsers)
           refused ==
               IF r.op = "remove"
               THEN r.check /\ adminCountAll(allUsers, Team) <= 1
               ELSE checkLastTeamAdmin(allUsers, r.id, r.existing, r.proposed)
       IN  tmCalls' = [tmCalls EXCEPT ![c] =
              IF refused THEN TmIdle ELSE [r EXCEPT !.pc = "write"]]
    /\ UNCHANGED tmUsers /\ TmFrame

\* userStore.Update with the teams computed from what was read, or
\* userStore.Delete; a request still in flight has now raced with a write.
TmWrite(c) ==
    /\ tmCalls[c].pc = "write"
    /\ LET r == tmCalls[c]
       IN  /\ tmUsers' =
                 IF ~tmUsers[r.id].exists \/ r.op = "update" THEN tmUsers
                 ELSE IF r.op = "delete"
                 THEN [tmUsers EXCEPT ![r.id] = [exists |-> FALSE, teams |-> << >>]]
                 ELSE [tmUsers EXCEPT ![r.id].teams = r.proposed]
           /\ tmCalls' = [d \in TmCallers |->
                 IF d = c THEN TmIdle
                 ELSE IF tmCalls[d].pc = "idle" THEN tmCalls[d]
                 ELSE [tmCalls[d] EXCEPT !.raced = TRUE]]
    /\ TmFrame

RemoveGetStep == \E c \in TmCallers, id \in UserIDs : RemoveGet(c, id)
UpdateGetStep == \E c \in TmCallers, id \in UserIDs, input \in TeamInputs : UpdateGet(c, id, input)
DeleteGetStep == \E c \in TmCallers, id \in UserIDs : DeleteGet(c, id)
TmCheckStep == \E c \in TmCallers : TmCheck(c)
TmWriteStep == \E c \in TmCallers : TmWrite(c)

TmNext == RemoveGetStep \/ UpdateGetStep \/ DeleteGetStep \/ TmCheckStep \/ TmWriteStep

SpecTeams == TmInit /\ [][TmNext]_vars

\* ------------------------------------------------------------------ claims

\* C1: for every key whose calls all passed the same positive rate r, after
\* any sequence of Allow calls, Status calls and clock advances the bucket
\* holds at least 0 and at most r tokens.
C1_TokensWithinRate ==
    \A k \in DOMAIN buckets :
        (hist[k].fixed /\ buckets[k].rate > 0) =>
            /\ 0 <= buckets[k].tokens
            /\ buckets[k].tokens <= buckets[k].rate * OneToken

\* A bucket that was drawn from, refilled past its capacity by a long wait
\* and found clamped to its rate.
C1_Witness ==
    \E k \in DOMAIN buckets :
        /\ hist[k].fixed /\ ~hist[k].steady /\ hist[k].grants >= 1
        /\ buckets[k].rate > 0
        /\ buckets[k].lastRefill = MaxTime
        /\ buckets[k].tokens = buckets[k].rate * OneToken

\* C2: when N Allow calls hit the same fresh key with rate r and the clock
\* does not advance, exactly min(N, r) of them return true, whatever the
\* order in which the callers get the mutex.
C2_ConcurrentGrants ==
    \A k \in DOMAIN buckets :
        (hist[k].steady /\ hist[k].fixed) =>
            hist[k].grants = Min(hist[k].calls, buckets[k].rate)

\* More callers than tokens: some were granted, some denied.
C2_Witness ==
    \E k \in DOMAIN buckets :
        /\ hist[k].steady /\ hist[k].fixed
        /\ hist[k].calls > buckets[k].rate
        /\ hist[k].grants = buckets[k].rate
        /\ lastCall.op = "Allow" /\ ~lastCall.ok

\* A scope takes part in a check when its resolved rate is positive (and,
\* for the team scope, the agent's team is not empty).
ScopeApplies(q, s) == q.rates[s] > 0 /\ (s = "team" => q.team # "")
ScopeNonZero(q, s) == q.rates[s] # 0 /\ (s = "team" => q.team # "")

RECURSIVE Flatten(_)
Flatten(batches) ==
    IF Len(batches) = 0 THEN << >> ELSE Head(batches).batch \o Flatten(Tail(batches))

Occurrences(seq, x) == Cardinality({i \in 1..Len(seq) : seq[i] = x})

\* Where a recorded transaction can be: in a batch handed to BatchInsert, in
\* a batch a flush has detached, or in the buffer.
HandedTx == Flatten(handed)
\* In how many places a transaction is.
Places(tx) ==
    Occurrences(HandedTx, tx) + Occurrences(worker.batch, tx) + Occurrences(buffer, tx)
    + Cardinality({g \in Recorders : Occurrences(rec[g].batch, tx) > 0})

AllInsertsOk == \A i \in 1..Len(handed) : handed[i].ok
NoFlushInProgress ==
    /\ worker.pc # "insert"
    /\ \A g \in Recorders : rec[g].pc = "idle"

\* C6: under any interleaving of Record calls, size-triggered flushes,
\* timer flushes and the final flush, no transaction is lost or duplicated:
\* every recorded transaction is exactly once in the buffer, in a detached
\* batch or in a batch handed to BatchInsert, and once the worker has
\* returned and no flush is in progress every transaction recorded before
\* Stop has been handed to BatchInsert in exactly one batch (inserted, when
\* BatchInsert did not fail).
C6_ExactlyOneBatch ==
    (mainPc # "none") =>
        /\ \A tx \in 1..(nextTx - 1) :
              Places(tx) = 1
        /\ (worker.pc = "exited" /\ NoFlushInProgress) =>
              \A tx \in beforeStop : Occurrences(HandedTx, tx) = 1

\* The worker has returned after a size-triggered flush and a final flush,
\* both successful, that carried the transactions recorded before Stop.
C6_Witness ==
    /\ mainPc # "none" /\ worker.pc = "exited" /\ NoFlushInProgress
    /\ Len(handed) >= 2 /\ AllInsertsOk
    /\ Cardinality(beforeStop) = MaxTx

\* C7 as stated: once Stop has returned, every transaction recorded before
\* Stop was called has been handed to BatchInsert.
C7_StopWaitsForFinalFlush ==
    (mainPc \in {"stopped", "draining", "returning", "exited"}) =>
        \A tx \in beforeStop : Occurrences(HandedTx, tx) = 1

\* C8 as stated: the collector is signalled only after the server stopped
\* accepting connections, and the process exits only after the transactions
\* recorded before Stop have been handed to BatchInsert.
C8_ShutdownOrder ==
    /\ doneClosed => ~accepting
    /\ (mainPc = "exited") => \A tx \in beforeStop : Occurrences(HandedTx, tx) = 1

\* The stages a request can be rejected at before the upstream round trip,
\* with the status and the error code of the rejection.
StageStatus == <<401, 429, 404, 429, 403, 403, 502>>
StageCode ==
    <<"unauthorized", "rate_limited", "not_found", "tool_rate_limited",
      "budget_exceeded", "budget_exceeded", "proxy_error">>

RecordsOf(q) == {i \in 1..Len(pxRecorded) : pxRecorded[i].req = q}
GotResponse(r) == r.status # 0

\* C4: a proxied request runs the stages in the order authentication,
\* per-agent rate limit, tool lookup, tool rate limit, agent budget, global
\* budget, template resolution, upstream call; the first stage whose check
\* fails produces the response with that stage's status and code, the
\* request is over, and no later stage has run for it.
C4_StageOrder ==
    \A q \in PxReqs :
        LET r == preq[q]
        IN  /\ r.trace = SubSeq(StageOrder, 1, Len(r.trace))
            /\ \A i \in 1..7 :
                  r.failed = StageOrder[i] =>
                      /\ r.resp = [status |-> StageStatus[i], code |-> StageCode[i],
                                   by |-> StageOrder[i]]
                      /\ Len(r.trace) = i
                      /\ r.pc = "done"

\* One request was rejected by the global budget with 403 after passing the
\* six stages before it, and the other has run all eight stages.
C4_Witness ==
    /\ preq["q1"].failed = "gbudget"
    /\ preq["q1"].resp.status = 403
    /\ preq["q2"].pc = "done"
    /\ preq["q2"].failed = ""
    /\ Len(preq["q2"].trace) = 8

PreUpstream == {"lookup", "toolrate", "budget", "gbudget", "template"}

\* C5: a request rejected before the upstream round trip (agent or global
\* budget exceeded, tool rate limit exceeded, unknown tool, template that
\* does not resolve) makes no upstream call and no call to Record.
C5_RejectedMakesNoCallNoRecord ==
    \A q \in PxReqs :
        preq[q].failed \in PreUpstream =>
            /\ preq[q].upstreamCalls = 0
            /\ RecordsOf(q) = {}

\* A request was rejected by the tool rate limit while the other one was
\* recorded.
C5_Witness ==
    /\ preq["q1"].failed = "toolrate"
    /\ preq["q1"].pc = "done"
    /\ RecordsOf("q1") = {}
    /\ RecordsOf("q2") # {}

\* C9: a request that reached the upstream round trip, with a response or
\* with a transport error, has exactly one Record once it is over, carrying
\* its agent and tool; a request that did not reach it has none, and no
\* request ever has two.
C9_ExactlyOneRecordPerUpstreamCall ==
    \A q \in PxReqs :
        /\ Cardinality(RecordsOf(q)) <= 1
        /\ preq[q].upstreamCalls <= 1
        /\ RecordsOf(q) # {} => preq[q].upstreamCalls = 1
        /\ preq[q].pc = "done" /\ preq[q].upstreamCalls = 1 => RecordsOf(q) # {}
        /\ \A i \in RecordsOf(q) :
              /\ pxRecorded[i].agent_id = preq[q].agent
              /\ pxRecorded[i].tool_id = preq[q].tool
              /\ preq[q].agent # "" /\ preq[q].tool # ""

\* One request failed in transport, the other got a response; both are over
\* and both are recorded.
C9_Witness ==
    /\ preq["q1"].pc = "done" /\ preq["q2"].pc = "done"
    /\ preq["q1"].failed = "upstream"
    /\ GotResponse(preq["q2"])
    /\ Len(pxRecorded) = 2

\* C10 (amended): for a call that got an upstream response, Record is made
\* only after the status and headers were written and the body copy has
\* returned, and the recorded response_size is the number of body bytes the
\* copy wrote, which is the whole body only when the copy did not fail.
C10_RecordAfterCopyReturns ==
    \A i \in 1..Len(pxRecorded) :
        LET r == preq[pxRecorded[i].req]
        IN  GotResponse(r) =>
                /\ r.headersWritten
                /\ r.copyDone
                /\ pxRecorded[i].status_code = r.status
                /\ pxRecorded[i].response_size = r.copied

\* A response whose body copy stopped early was recorded with the bytes
\* that were copied.
C10_Witness ==
    \E i \in 1..Len(pxRecorded) :
        LET r == preq[pxRecorded[i].req]
        IN  /\ GotResponse(r)
            /\ r.bodyLen = MaxBody
            /\ r.copied = 1
            /\ pxRecorded[i].response_size = 1

\* C10 as stated: Record is made only after the complete body was copied to
\* the client.
C10_RecordAfterCompleteBody ==
    \A i \in 1..Len(pxRecorded) :
        LET r == preq[pxRecorded[i].req]
        IN  GotResponse(r) =>
                /\ r.headersWritten
                /\ r.copyDone
                /\ r.copied = r.bodyLen
                /\ pxRecorded[i].response_size = r.copied

\* The cost of the rows of the transactions table whose index is in I.
RECURSIVE CostOfRows(_)
CostOfRows(I) ==
    IF I = {}
    THEN 0
    ELSE LET i == CHOOSE j \in I : TRUE
         IN  transactions[i].cost + CostOfRows(I \ {i})

\* What agent a1 has spent on tool T1, and what all agents have spent on it,
\* in the rows stamped since a time.
AgentSpent(since) ==
    CostOfRows({i \in DOMAIN transactions :
                  /\ transactions[i].agent_id = BAgent
                  /\ transactions[i].tool_id = BTool
                  /\ transactions[i].timestamp >= since})
ToolSpent(since) ==
    CostOfRows({i \in DOMAIN transactions :
                  /\ transactions[i].tool_id = BTool
                  /\ transactions[i].timestamp >= since})

\* A check denies when it returns allowed = false without an error.
BudgetDenied == ~bcall.res.err /\ ~bcall.res.allowed

\* C11 as stated: CheckBudget, when its queries succeed, denies if and only
\* if the budget row exists and the spend since the start of the UTC day
\* (month) has reached a non-zero daily (monthly) limit.
C11_DeniesIffNonZeroLimitReached ==
    (bcall.op = "CheckBudget" /\ ~bcall.queryFails) =>
        (BudgetDenied <=>
            /\ bcall.row.exists
            /\ \/ bcall.row.daily # 0 /\ AgentSpent(startOfDay(bclock)) >= bcall.row.daily
               \/ bcall.row.monthly # 0 /\ AgentSpent(startOfMonth(bclock)) >= bcall.row.monthly)

\* C12: when a budget check returns an error (no budget row, or a failed
\* query) the handler does not reject the request and goes on to the next
\* stage: the global budget after the agent budget, the template after the
\* global budget.
C12_BudgetErrorFailsOpen ==
    (bcall.op # "none" /\ bcall.res.err) =>
        bcall.next = (IF bcall.op = "CheckBudget" THEN "gbudget" ELSE "template")

\* CheckBudget found no budget row, returned an error, and the request went
\* on to the global budget check.
C12_Witness ==
    /\ bcall.op = "CheckBudget"
    /\ ~bcall.row.exists
    /\ bcall.res.err
    /\ bcall.next = "gbudget"

\* C13: CheckToolGlobalBudget, when its queries succeed, allows when
\* budget_limit is zero and otherwise denies if and only if the spend of all
\* agents on the tool since the window start has reached budget_limit; the
\* window starts with the UTC day for "daily" and with the UTC month for
\* "monthly" and for every other value.
C13_GlobalBudgetWindow ==
    (bcall.op = "CheckToolGlobalBudget" /\ ~bcall.queryFails) =>
        LET since == IF bcall.cfg.window = "daily"
                     THEN startOfDay(bclock)
                     ELSE startOfMonth(bclock)
        IN  IF bcall.cfg.limit = 0
            THEN bcall.res.allowed /\ ~bcall.res.err
            ELSE BudgetDenied <=> ToolSpent(since) >= bcall.cfg.limit

\* A tool with an unknown window whose spend of the month equals the limit,
\* though today's spend is below it, is denied; the spend is that of two
\* agents.
C13_Witness ==
    /\ bcall.op = "CheckToolGlobalBudget" /\ ~bcall.queryFails
    /\ bcall.cfg.window = "weekly"
    /\ bcall.cfg.limit = 2
    /\ ToolSpent(startOfMonth(bclock)) = 2
    /\ ToolSpent(startOfDay(bclock)) < 2
    /\ AgentSpent(startOfMonth(bclock)) < 2
    /\ BudgetDenied

\* C14: a request whose upstream round trip fails with a transport error is
\* answered 502 proxy_error and has exactly one recorded transaction, with
\* status_code 502 and success = false.
C14_TransportErrorRecorded ==
    \A q \in PxReqs :
        preq[q].failed = "upstream" =>
            /\ preq[q].resp = [status |-> 502, code |-> "proxy_error", by |-> "upstream"]
            /\ Cardinality(RecordsOf(q)) = 1
            /\ \A i \in RecordsOf(q) :
                  pxRecorded[i].status_code = 502 /\ ~pxRecorded[i].success

\* A transport error was recorded as a failure next to a call that got 200
\* and was recorded as a success.
C14_Witness ==
    /\ preq["q1"].failed = "upstream"
    /\ \E i \in RecordsOf("q1") : pxRecorded[i].status_code = 502
    /\ \E i \in RecordsOf("q2") : pxRecorded[i].status_code = 200 /\ pxRecorded[i].success

\* The transactions of the batches whose BatchInsert failed.
FailedTx ==
    {tx \in 1..(nextTx - 1) :
        \E i \in 1..Len(handed) : ~handed[i].ok /\ Occurrences(handed[i].batch, tx) > 0}

\* C15: the transactions of a batch whose BatchInsert returned an error are
\* discarded: they are not in the buffer, not in a batch a flush holds, and
\* in no other batch handed to BatchInsert.
C15_FailedBatchDiscarded ==
    (mainPc # "none") =>
        \A tx \in FailedTx :
            /\ Occurrences(buffer, tx) = 0
            /\ Occurrences(worker.batch, tx) = 0
            /\ \A g \in Recorders : Occurrences(rec[g].batch, tx) = 0
            /\ Occurrences(HandedTx, tx) = 1

\* After a failed BatchInsert a later transaction was recorded, flushed and
\* inserted.
C15_Witness ==
    /\ Len(handed) >= 2
    /\ ~handed[1].ok
    /\ handed[Len(handed)].ok
    /\ \E tx \in 1..(nextTx - 1) :
          /\ Occurrences(handed[Len(handed)].batch, tx) > 0
          /\ \A old \in FailedTx : tx > old
    /\ NoFlushInProgress

\* The worker has not taken a batch: no timer tick and no stop signal found
\* the buffer non-empty.
NoWorkerTake ==
    /\ worker.batch = << >>
    /\ \A i \in 1..Len(handed) : handed[i].by # "worker"

\* A step is a Record call when it appends a transaction.
RecordAppends == nextTx' = nextTx + 1
FlushTriggered == \E g \in Recorders : rec[g].pc = "idle" /\ rec'[g].pc = "flush"

\* C16 (amended): Record triggers an immediate flush exactly when the
\* buffer length after its append is >= batchSize, and nothing else does; as
\* long as fewer than batchSize transactions have been recorded and no timer
\* tick or stop signal has taken a batch, nothing is detached or handed to
\* BatchInsert.
C16_FlushWhenBatchSizeReached ==
    [][/\ RecordAppends => (FlushTriggered <=> Len(buffer') >= BatchSize)
       /\ FlushTriggered => RecordAppends
       /\ (NoWorkerTake /\ nextTx - 1 < BatchSize) =>
              /\ handed = << >>
              /\ \A g \in Recorders : rec[g].batch = << >>]_vars

\* A Record call has just brought the buffer to batchSize and its flush is
\* due; nothing was handed to BatchInsert before.
C16_Witness ==
    /\ mainPc # "none"
    /\ Len(buffer) = BatchSize
    /\ \E g \in Recorders : rec[g].pc = "flush"
    /\ handed = << >>
    /\ NoWorkerTake

\* C16 as stated: without a timer tick or stop signal, a batch is detached
\* for BatchInsert only when batchSize transactions are buffered.
C16_NothingHandedBelowBatchSize ==
    NoWorkerTake =>
        /\ \A g \in Recorders : rec[g].pc = "insert" => Len(rec[g].batch) >= BatchSize
        /\ \A i \in 1..Len(handed) : Len(handed[i].batch) >= BatchSize

\* C17: on a bucket of rate r that starts full, while the clock stands still
\* and every call passes the same rate, the n-th Allow call returns true
\* exactly when n <= r: the first r succeed and the (r+1)-th is denied.
C17_FirstRateCallsSucceed ==
    (lastCall.op = "Allow" /\ hist[lastCall.key].steady /\ hist[lastCall.key].fixed) =>
        (lastCall.ok <=> hist[lastCall.key].calls <= buckets[lastCall.key].rate)

\* The (r+1)-th call on a bucket with a custom rate other than the default
\* has just been denied after r grants.
C17_Witness ==
    /\ lastCall.op = "Allow" /\ ~lastCall.ok
    /\ hist[lastCall.key].steady /\ hist[lastCall.key].fixed
    /\ buckets[lastCall.key].rate # DefaultRate
    /\ hist[lastCall.key].calls = buckets[lastCall.key].rate + 1
    /\ hist[lastCall.key].grants = buckets[lastCall.key].rate

\* C18: once a full bucket of rate r has been emptied by r Allow calls and the
\* clock has moved on by Delta seconds, less than the window W, the Allow calls
\* that succeed before the next denial number floor(Delta * r / W).
C18_RefillGrantsFloor ==
    (frun.now > 0 /\ frun.denied) =>
        frun.grants = (frun.now * fbucket.rate) \div WindowSecs

\* The smallest rate among the first n checks of a request, and the first
\* check that has it.
MinRate(checks, n) ==
    CHOOSE m \in {checks[j].rate : j \in 1..n} : \A j \in 1..n : m <= checks[j].rate
TightestCheck(checks, n) ==
    CHOOSE i \in 1..n : /\ checks[i].rate = MinRate(checks, n)
                        /\ \A j \in 1..(i - 1) : checks[j].rate # MinRate(checks, n)
StatusOut(st) == [limit |-> st.limit, remaining |-> st.remaining, resetAt |-> st.resetAt]

\* C19: in a CheckToolRateLimit call that checks at least one scope, after
\* each scope's Status the limit held for the headers is the smallest rate
\* among the scopes checked so far, the remaining and reset values held with
\* it are the ones Status returned for that very bucket, and they are left
\* alone while a bucket that is not tighter is checked; so the call returns
\* the smallest configured rate with that bucket's remaining and reset.
C19_TightestBucketReported ==
    [][\A r \in Reqs :
          (treq[r].pc = "status" /\ treq'[r].pc # "status") =>
             LET i == treq[r].i
                 c == treq[r].checks[i]
                 st == Status(buckets, c.key, c.rate, now)
             IN  /\ treq'[r].out.limit = MinRate(treq[r].checks, i)
                 /\ TightestCheck(treq[r].checks, i) = i => treq'[r].out = StatusOut(st)
                 /\ TightestCheck(treq[r].checks, i) # i => treq'[r].out = treq[r].out]_vars

\* A call over the global bucket of rate 2 and the agent's bucket of rate 1
\* has been denied and reports the agent's bucket: limit 1, nothing remaining.
C19_Witness ==
    /\ treq[SeqReq].pc = "done" /\ ~treq[SeqReq].err /\ ~treq[SeqReq].allowed
    /\ Len(treq[SeqReq].checks) >= 2
    /\ treq[SeqReq].checks[1].rate > treq[SeqReq].checks[Len(treq[SeqReq].checks)].rate
    /\ treq[SeqReq].out.limit = treq[SeqReq].checks[Len(treq[SeqReq].checks)].rate
    /\ treq[SeqReq].out.remaining = 0

ToolRateLimitHeaders ==
    {"X-Tool-RateLimit-Limit", "X-Tool-RateLimit-Remaining", "X-Tool-RateLimit-Reset"}

\* C20: when the tool rate limiter is set and CheckToolRateLimit has returned
\* without an error having checked at least one scope, the response carries
\* the three X-Tool-RateLimit headers, on a request that is admitted as on one
\* answered 429; a call that found no scope to check leaves no such header.
C20_HeadersWhenAScopeWasChecked ==
    (tresp.served /\ ~tresp.tlErr) =>
        /\ tresp.checked > 0 => ToolRateLimitHeaders \subseteq DOMAIN tresp.headers
        /\ tresp.checked = 0 => DOMAIN tresp.headers = {}

\* A call that checked a scope has been denied: the 429 carries the headers.
C20_Witness ==
    /\ tresp.served /\ ~tresp.tlErr /\ ~tresp.tlAllowed
    /\ tresp.status = 429
    /\ tresp.checked > 0
    /\ ToolRateLimitHeaders \subseteq DOMAIN tresp.headers

\* C20 as stated: every call that returned without an error leaves the three
\* headers on the response.
C20_HeadersWheneverNoError ==
    (tresp.served /\ ~tresp.tlErr) => ToolRateLimitHeaders \subseteq DOMAIN tresp.headers

\* C30: after every Allow or Status call on a key, a call that passes another
\* effective rate than the call before it included, the bucket holds at most
\* as many tokens as its current rate.
C30_TokensAtMostCurrentRate ==
    \A k \in DOMAIN buckets : buckets[k].tokens <= buckets[k].rate * OneToken

HeaderValues(h) == UNION {{h[n][i] : i \in 1..Len(h[n])} : n \in DOMAIN h}
ToolCredentials(tool) == {tool.key, "Bearer " \o tool.key}
RECURSIVE PairCount(_, _)
PairCount(q, p) ==
    IF q = << >> THEN 0
    ELSE (IF q[1].name = p.name /\ q[1].value = p.value THEN 1 ELSE 0)
         + PairCount(Tail(q), p)
ParamNameOf(tool) == IF tool.paramName = "" THEN "api_key" ELSE tool.paramName

\* C21: the upstream request holds none of the values the client sent as
\* Authorization, Host or Connection, so the agent's API key does not go
\* upstream, and an Authorization header on it holds the tool's credential
\* and nothing else.
C21_ClientAuthNotForwarded ==
    ret.sent =>
        /\ \A n \in {"Authorization", "Host", "Connection"} \cap DOMAIN args.req.headers :
              args.req.headers[n][1] \notin HeaderValues(ret.headers)
        /\ "Authorization" \in DOMAIN ret.headers =>
              /\ Len(ret.headers["Authorization"]) = 1
              /\ ret.headers["Authorization"][1] \in ToolCredentials(args.tool)

\* The client sent its API key and a Host, the tool uses bearer auth: the
\* upstream request has the tool's Authorization and the client's other header.
C21_Witness ==
    /\ ret.sent
    /\ {"Authorization", "Host", "X-Custom"} \subseteq DOMAIN args.req.headers
    /\ args.tool.authType = "bearer"
    /\ ret.headers["Authorization"] = <<"Bearer " \o ToolKey>>
    /\ ret.headers["X-Custom"] = args.req.headers["X-Custom"]

C23_RecordedCost ==
    ret.recorded =>
        LET p == ParseFloat(args.header)
            reported == args.header # "" /\ ~p.err /\ p.val.kind # "nan"
                        /\ (p.val.kind = "num" => p.val.n >= 0)
        IN  /\ reported => ret.cost = p.val /\ ret.costSource = "reported"
            /\ (~reported /\ args.tool.pricingModel = "per_request") =>
                  ret.cost = Num(args.tool.pricingAmount) /\ ret.costSource = "flat"
            /\ (~reported /\ args.tool.pricingModel # "per_request") => ret.cost = Num(0)

\* A negative header on a per_request tool has been recorded at the flat price.
C23_Witness ==
    /\ ret.recorded
    /\ args.header = "-1.5"
    /\ args.tool.pricingModel = "per_request"
    /\ ret.cost = Num(args.tool.pricingAmount) /\ ret.costSource = "flat"

\* The header is a Bearer scheme, in any case, one space and a token that is
\* not empty and whose hash is that of a stored agent.
ValidBearer(auth, agents) ==
    \E s \in {Str_Bearer, Str_bearer, Str_BEARER} :
        \E n \in 1..Len(auth) :
            /\ Len(auth) = Len(s) + 1 + n
            /\ SubSeq(auth, 1, Len(s)) = s
            /\ auth[Len(s) + 1] = " "
            /\ HashKey(SubSeq(auth, Len(s) + 2, Len(auth))) \in DOMAIN agents

C25_TokenValidUntilLogoutOrExpiry ==
    [][\A t \in SessionTokens, sp \in BearerSpellings :
          (Me(t, sp) /\ ret'.status = 200) =>
              /\ sesHist[t].issued
              /\ ~sesHist[t].loggedOut
              /\ sesClock < sesHist[t].created + sessionDuration]_vars

\* C25, first half alone: a lookup succeeds only with an issued token that
\* has not expired.
C25_TokenValidOnlyBeforeExpiry ==
    [][\A t \in SessionTokens, sp \in BearerSpellings :
          (Me(t, sp) /\ ret'.status = 200) =>
              /\ sesHist[t].issued
              /\ sesClock < sesHist[t].created + sessionDuration]_vars

Braces(s) == Cardinality({i \in 1..Len(s) : s[i] \in {"{", "}"}})

\* Every brace of the template belongs to one of its placeholders, and no
\* value has a brace.
BracesOnlyInPlaceholders(tmpl, variables) ==
    /\ Braces(tmpl) = 2 * Len(FindAllStringSubmatch(tmpl, 1))
    /\ \A n \in DOMAIN variables : Braces(variables[n]) = 0

\* C28: ResolveTemplate(T, V) succeeds exactly when every placeholder of T
\* has a key in V; on failure the error names a placeholder of T that V
\* lacks; on success the result has no placeholder provided that T has no
\* brace outside its placeholders and no value of V has a brace.
C28_ResolveTemplate ==
    ret.done =>
        /\ ret.out.ok <=> ExtractTemplateVars(args.tmpl) \subseteq DOMAIN args.variables
        /\ ~ret.out.ok =>
              ret.out.missingVar \in
                  ExtractTemplateVars(args.tmpl) \ DOMAIN args.variables
        /\ (ret.out.ok /\ BracesOnlyInPlaceholders(args.tmpl, args.variables)) =>
              ExtractTemplateVars(ret.out.result) = {}

\* A template with one placeholder and one more character has been
\* resolved to a string without any placeholder.
C28_Witness ==
    /\ ret.done /\ ret.out.ok
    /\ Len(FindAllStringSubmatch(args.tmpl, 1)) = 1
    /\ ret.out.result = <<"b", "b">>
    /\ BracesOnlyInPlaceholders(args.tmpl, args.variables)
    /\ ExtractTemplateVars(ret.out.result) = {}

\* C28 as stated: every successful result is free of placeholders.
C28_ResultHasNoPlaceholder ==
    (ret.done /\ ret.out.ok) => ExtractTemplateVars(ret.out.result) = {}

\* Every placeholder of the endpoint of an api-mode tool has a key in the
\* tool's variables.
PlaceholdersHaveKeys ==
    \A id \in DOMAIN tools :
        tools[id].mode = "api" =>
            ExtractTemplateVars(tools[id].endpoint) \subseteq DOMAIN tools[id].variables

\* C26: after any successful Service.Create and Service.Update calls, every
\* stored tool in api mode has an endpoint whose placeholders all have a key
\* in the tool's variables.
C26_ApiPlaceholdersHaveKeys == PlaceholdersHaveKeys

\* C26 for calls that never overlap: as long as no Service.Update has begun
\* while another was between its read and its write, the placeholders of
\* every api-mode tool have keys.
C26_WhenUpdatesDoNotOverlap == ~calls.overlapped => PlaceholdersHaveKeys

\* The string starts with a scheme, "://" and a host.
AbsoluteURL(s) ==
    \E i \in 1..Len(s) : s[i] = Origin /\ \A j \in 1..(i - 1) : s[j] \in NameChars

\* C27: after any successful Service.Create and Service.Update calls, every
\* stored tool in service mode has an endpoint that is an absolute URL with
\* a scheme and a host.
C27_ServiceEndpointIsAbsoluteURL ==
    \A id \in DOMAIN tools :
        tools[id].mode = "service" => AbsoluteURL(tools[id].endpoint)

\* C27 for calls that never overlap.
C27_WhenUpdatesDoNotOverlap ==
    ~calls.overlapped => C27_ServiceEndpointIsAbsoluteURL

\* The timestamp is one that RFC3339Nano can carry: a year of at most four
\* digits and a zone offset of whole minutes.
FitsRFC3339(t) == t.year <= 9999 /\ t.offset % 60 = 0

C40_ConcurrentUpdatesKeepPlaceholders == calls.split => PlaceholdersHaveKeys

InBuffer(tx) == Occurrences(buffer, tx) > 0
HandedToBatchInsert(tx) == Occurrences(HandedTx, tx) > 0

\* C31: a transaction that is in the buffer while the worker has not
\* returned is eventually handed to BatchInsert.
C31_RecordedEventuallyHanded ==
    \A tx \in 1..MaxTx :
        (mainPc # "none" /\ InBuffer(tx) /\ worker.pc # "exited" /\ Running)
            ~> HandedToBatchInsert(tx)

\* C31 short of the shutdown: a transaction that is in the buffer while the
\* worker has not begun its final flush is eventually handed to BatchInsert,
\* unless the process exits first.
C31_HandedUnlessProcessExits ==
    \A tx \in 1..MaxTx :
        (mainPc # "none" /\ InBuffer(tx) /\ worker.pc # "exited" /\ ~worker.final)
            ~> (HandedToBatchInsert(tx) \/ ~Running)

\* The call of r returns to ServeHTTP, which answers 429 tool_rate_limited.
Returns429(r) == PxToolRateReturn(r) /\ tresp'.status = 429
\* The checks of the call of r whose bucket denied it.
DenyingChecks(r) ==
    {i \in 1..Len(treq[r].checks) : ~treq[r].had[treq[r].checks[i].scope]}

\* C32: on every 429 tool_rate_limited response some checked bucket denied
\* the request, and the X-Tool-RateLimit headers describe the checked bucket
\* of the smallest limit, the first of them in the order global, team, agent,
\* whether it denied or not: the limit is its rate and the remaining value
\* the whole tokens it held at its Status call, after this request's Allow.
C32_DeniedReportsTightestBucket ==
    [][Returns429(SeqReq) =>
          LET checks == treq[SeqReq].checks
              t == TightestCheck(checks, Len(checks))
          IN  /\ DenyingChecks(SeqReq) # {}
              /\ tresp'.headers["X-Tool-RateLimit-Limit"] = checks[t].rate
              /\ tresp'.headers["X-Tool-RateLimit-Remaining"]
                    = buckets[checks[t].key].tokens \div OneToken]_vars

\* A 429 whose headers describe a bucket of rate 1 with nothing remaining,
\* for a tool whose global bucket has rate 2.
C32_Witness ==
    /\ tresp.served /\ tresp.status = 429
    /\ tresp.headers["X-Tool-RateLimit-Limit"] = 1
    /\ tresp.headers["X-Tool-RateLimit-Remaining"] = 0
    /\ trlStore.global = 2
    /\ GlobalKey(ToolID) \in DOMAIN buckets

\* C32 as stated: on every 429 tool_rate_limited response the headers carry
\* the limit of a bucket that denied the request and a remaining value of 0.
C32_HeadersDescribeDenyingBucket ==
    [][Returns429(SeqReq) =>
          /\ \E i \in DenyingChecks(SeqReq) :
                tresp'.headers["X-Tool-RateLimit-Limit"] = treq[SeqReq].checks[i].rate
          /\ tresp'.headers["X-Tool-RateLimit-Remaining"] = 0]_vars

\* C36: CheckToolRateLimit calls Allow on every configured scope, also after
\* a scope has denied the request: a bucket that holds at least one token
\* when its turn comes loses exactly one, whatever the scopes before it
\* answered, and a bucket without a whole token loses nothing.
C36_EveryScopeCharged ==
    [][(treq[SeqReq].pc = "allow" /\ treq'[SeqReq].pc = "status") =>
          LET c == treq[SeqReq].checks[treq[SeqReq].i]
              b == refill(getBucket(buckets, c.key, effectiveRate(c.rate), now), now)
          IN  /\ c.key \in DOMAIN buckets'
              /\ buckets'[c.key].tokens =
                    IF b.tokens >= OneToken THEN b.tokens - OneToken ELSE b.tokens]_vars

\* A request that the global bucket denied has gone on to the agent's bucket,
\* which was full and has lost one token to it.
C36_Witness ==
    /\ treq[SeqReq].pc = "done" /\ ~treq[SeqReq].err /\ ~treq[SeqReq].allowed
    /\ treq[SeqReq].rates.global > 0 /\ ~treq[SeqReq].had["global"]
    /\ treq[SeqReq].rates.agent > 0 /\ treq[SeqReq].had["agent"]
    /\ LET k == AgentKey(ToolID, treq[SeqReq].agent)
       IN  k \in DOMAIN buckets
           /\ buckets[k].tokens = (buckets[k].rate - 1) * OneToken

\* C38: when CheckToolRateLimit has returned an error, ServeHTTP writes no
\* 429, sets none of the X-Tool-RateLimit headers, and goes on to the budget
\* checks.
C38_ErrorFailsOpen ==
    (tresp.served /\ tresp.tlErr) =>
        /\ tresp.status = 0
        /\ DOMAIN tresp.headers \cap ToolRateLimitHeaders = {}
        /\ tresp.next = "budget"

\* A call whose rate resolution failed has returned, for a tool with a rate
\* configured, and the request is on its way to the budget checks.
C38_Witness ==
    /\ tresp.served /\ tresp.tlErr /\ ~tresp.tlAllowed
    /\ trlStore.global > 0
    /\ tresp.next = "budget"

\* C33: Allow is monotonic in elapsed time: from any bucket state the limiter
\* reaches, a call that Allow would admit at the current clock time is also
\* admitted when it is made instead, with no call in between, at any later
\* time.
C33_AllowMonotonicInTime ==
    \A key \in Keys, c \in CustomRates, t1 \in now..MaxTime, t2 \in now..MaxTime :
        (t1 <= t2 /\ Allow(buckets, key, c, t1).ok) => Allow(buckets, key, c, t2).ok

\* A bucket that has been drawn on holds at least one token without being
\* full, and there is a later time at which the same call is still admitted.
C33_Witness ==
    \E key \in DOMAIN buckets, c \in CustomRates :
        /\ CallsOf(key) > 0
        /\ now < MaxTime
        /\ buckets[key].tokens < effectiveRate(c) * OneToken
        /\ buckets[key].lastRefill < now
        /\ Allow(buckets, key, c, now).ok
        /\ Allow(buckets, key, c, MaxTime).ok

\* A request leaves the Allow call of ratelimit.Middleware in this step.
LeavesRateAllow(q) == mwReq[q].pc = "allow" /\ mwReq'[q].pc # "allow"

\* What does hold of the headers of C39: they are set from Status before
\* Allow is called: X-RateLimit-Limit is the agent's
\* effective rate and X-RateLimit-Remaining is the floor of the token count
\* of the bucket as Status left it; Allow changes none of them, so they are
\* on the response of an admitted request and of a 429 rate_limited one
\* alike.
C39_HeadersFromStatusOnEveryResponse ==
    [][\A q \in MwReqs :
          /\ (mwReq[q].pc = "status" /\ mwReq'[q].pc = "allow") =>
                /\ mwReq'[q].rl.set
                /\ mwReq'[q].rl.limit = effectiveRate(RateLimitOf(mwReq[q].agent))
                /\ mwReq'[q].rl.remaining = buckets'[mwReq[q].agent].tokens \div OneToken
          /\ LeavesRateAllow(q) =>
                /\ mwReq[q].rl.set
                /\ mwReq'[q].rl = mwReq[q].rl
                /\ \/ mwReq'[q].pc = "next" /\ mwReq'[q].status = 0
                   \/ /\ mwReq'[q].pc = "done"
                      /\ mwReq'[q].status = 429
                      /\ mwReq'[q].code = "rate_limited"]_vars

\* One request of an agent was admitted by the middleware with a positive
\* X-RateLimit-Remaining and another was answered 429 rate_limited, and both
\* carry the headers.
C39_AdmittedAndRejectedCarryHeaders ==
    \E q1, q2 \in MwReqs :
        /\ mwReq[q1].rl.set /\ mwReq[q1].pc = "next" /\ mwReq[q1].rl.remaining > 0
        /\ mwReq[q2].rl.set /\ mwReq[q2].code = "rate_limited"
        /\ mwReq[q2].rl.remaining = 0

\* C39: the X-RateLimit headers are computed by Status before Allow consumes
\* a token, so on an admitted request X-RateLimit-Remaining equals the floor
\* of the token count before this request's token is deducted.
C39_RemainingIsCountBeforeDeduction ==
    [][\A q \in MwReqs :
          (LeavesRateAllow(q) /\ mwReq'[q].pc = "next") =>
              mwReq[q].rl.remaining =
                  (buckets'[mwReq[q].agent].tokens + OneToken) \div OneToken]_vars

\* tx was recorded after the worker's final flush was over and Start had
\* returned.
RecordedAfterReturn(tx) ==
    worker.returnedAt > 0 /\ worker.returnedAt <= tx /\ tx < nextTx

\* recorder g takes the whole buffer for BatchInsert in this step: the flush
\* of a Record call that found the buffer at batchSize.
RecordFlushTakes(g) ==
    rec[g].pc = "flush" /\ rec'[g] = [pc |-> "insert", batch |-> buffer]

\* C37: a transaction recorded after the worker has performed its final
\* flush and returned leaves the buffer only in the flush of a Record call
\* (one that found the buffer at batchSize), and only such a call hands it
\* to BatchInsert; until then it stays in the buffer.
C37_OnlyRecordFlushHands ==
    [][\A tx \in 1..MaxTx :
          /\ (RecordedAfterReturn(tx) /\ InBuffer(tx)) =>
                \/ \E i \in 1..Len(buffer') : buffer'[i] = tx
                \/ \E g \in Recorders : RecordFlushTakes(g)
          /\ (RecordedAfterReturn(tx) /\ Len(handed') > Len(handed)
                /\ Occurrences(handed'[Len(handed')].batch, tx) > 0) =>
                handed'[Len(handed')].by \in Recorders]_vars

\* The worker has returned, a transaction recorded after that is still in
\* the buffer, below batchSize, and another one recorded after that has been
\* handed to BatchInsert by a recorder.
C37_Witness ==
    /\ worker.pc = "exited"
    /\ \E tx \in 1..MaxTx :
          /\ RecordedAfterReturn(tx) /\ InBuffer(tx) /\ Len(buffer) < BatchSize
    /\ \E tx \in 1..MaxTx, i \in 1..Len(handed) :
          /\ RecordedAfterReturn(tx)
          /\ Occurrences(handed[i].batch, tx) > 0
          /\ handed[i].by \in Recorders

\* C37 as stated: such a transaction is handed to BatchInsert only if Record
\* calls, its own or later ones, bring the buffer that holds it to
\* batchSize.
C37_HandedOnlyFromFullBuffer ==
    [][\A g \in Recorders :
          (RecordFlushTakes(g) /\ \E i \in 1..Len(buffer) : RecordedAfterReturn(buffer[i]))
              => Len(buffer) >= BatchSize]_vars

\* The login attempts of a client admitted at a time in [t0, t0 + window);
\* the time of an attempt is the time.Now() that allow read for it.
AdmittedIn(host, t0) ==
    {i \in 1..Len(lrlHist) :
        /\ lrlHist[i].host = host /\ lrlHist[i].ok
        /\ t0 <= lrlHist[i].at /\ lrlHist[i].at < t0 + LoginWindow}

\* C34: for every client IP and every time interval of length window, at
\* most limit login attempts are admitted.
C34_AtMostLimitPerWindow ==
    \A i \in 1..Len(lrlHist), t0 \in 0..LrlMaxTime :
        Cardinality(AdmittedIn(lrlHist[i].host, t0)) <= LoginLimit

\* What does hold of C34: an attempt that is not admitted is answered 429
\* with a Retry-After of at least one second, and no entry counts more than
\* limit attempts.
C34_RejectedWithRetryAfter ==
    /\ \A i \in 1..Len(lrlHist) :
          ~lrlHist[i].ok => lrlHist[i].status = 429 /\ lrlHist[i].retryAfter >= 1
    /\ \A id \in DOMAIN lrlHeap : lrlHeap[id].count <= LoginLimit

\* An attempt was rejected while the cleanup was at work.
C34_RejectedDuringCleanup ==
    /\ lrlCleaner.pc # "idle"
    /\ \E i \in 1..Len(lrlHist) : ~lrlHist[i].ok /\ lrlHist[i].retryAfter >= 1

\* C35: a team that has at least one admin still has at least one admin
\* after any step of a RemoveTeamMember, UpdateUser or DeleteUser request,
\* requests that interleave between their admin-count read and their write
\* included.
C35_TeamKeepsAnAdmin ==
    [][Admins(tmUsers) # {} => Admins(tmUsers') # {}]_vars

\* No user has the team more than once in its teams list.
NoDuplicateTeams(users) ==
    \A u \in UserIDs :
        Cardinality({i \in DOMAIN users[u].teams : users[u].teams[i].team = Team}) <= 1

\* What does hold of C35: the write of a request that no other write has
\* raced with, made while no user lists the team twice, leaves the team an
\* admin.
C35_UnracedWriteKeepsAnAdmin ==
    [][\A c \in TmCallers :
          (/\ tmCalls[c].pc = "write" /\ tmCalls'[c].pc = "idle"
           /\ ~tmCalls[c].raced
           /\ NoDuplicateTeams(tmUsers)
           /\ Admins(tmUsers) # {})
              => Admins(tmUsers') # {}]_vars

====
